---------------------------- MODULE Spec2Model ----------------------------
(***************************************************************************)
(* A model of the path / URL toolkit of kitchensink-ts (pathman):          *)
(* getUriScheme, parsePackageUrl, resolveAsUrl, normalizeUnixPath,         *)
(* normalizePath and their helpers.                                        *)
(*                                                                         *)
(* A javascript string is modelled as a sequence of one-character strings, *)
(* so that prefixes, splitting, joining and regex matching are computed    *)
(* character by character, as the code computes them.                      *)
(* The value `undefined` is the one-element sequence Undefined, whose      *)
(* element is not a character, so it differs from every string.            *)
(***************************************************************************)
EXTENDS Integers, Sequences, FiniteSets, TLC

VARIABLES
    fn,               \* the function that was called last ("none" at start)
    path,             \* its first argument (a string)
    base,             \* its second argument (a string, or NoBase)
    pc,               \* "idle", "loop" (inside normalizeUnixPath's for-loop), "map" (inside
                      \* commonPathTransform's map), "resolve" (inside resolveAsUrl), "done"
    segments,         \* normalizeUnixPath: the segments not yet visited
    output_segments,  \* normalizeUnixPath: the output stack
    ret,              \* the value returned (or the error thrown) by the last call to end
    paths,            \* its first argument when that is a list of strings
    map_fn,           \* commonPathTransform: the name of the map function passed
    new_common_dir,   \* commonPathReplace: new_common_dir, once line 678 has reassigned it
    path_infos,       \* commonPathTransform: the [common_dir, subpath] pairs
    calls,            \* commonPathTransform: the calls of map_fn made so far, in order
    mapped,           \* commonPathTransform: what these calls returned
    stack,            \* resolveAsUrl: the calls of resolveAsUrl that have not returned yet
    bytes,            \* typedbuffer: the array that was passed, as it is now
    bytes_at_call,    \* typedbuffer: that array as it was when the call was made
    bytesize,         \* swapEndianess, swapEndianessFast: bytesize
    slice_length,     \* sliceSkip, sliceSkipTypedSubarray: slice_length
    skip_length,      \* sliceSkip, sliceSkipTypedSubarray: skip_length
    start,            \* sliceSkip, sliceSkipTypedSubarray: start, once line 98 or 110 has set it
    end,              \* sliceSkip, sliceSkipTypedSubarray: end, once line 98 or 110 has set it
    offset,           \* sliceSkip, sliceSkipTypedSubarray: the loop variable
    out_arr,          \* sliceSkip, sliceSkipTypedSubarray: out_arr
    scheme_mapping,   \* pathman: the array that uri_protocol_and_scheme_mapping names
    lastIndex         \* pathman: the lastIndex of each regex constant

\* the variables of the functions that take a list of paths
list_vars == <<paths, map_fn, new_common_dir, path_infos, calls, mapped>>

\* the variables of the functions of typedbuffer
buffer_vars == <<bytes, bytes_at_call, bytesize, slice_length, skip_length,
                 start, end, offset, out_arr>>

\* the variables of the functions of pathman
path_vars == <<path, base, segments, output_segments, stack>>

vars == <<fn, path, base, pc, segments, output_segments, ret,
          paths, map_fn, new_common_dir, path_infos, calls, mapped, stack,
          bytes, bytes_at_call, bytesize, slice_length, skip_length,
          start, end, offset, out_arr, scheme_mapping, lastIndex>>

\* the data of the module pathman that every call shares
module_vars == <<scheme_mapping, lastIndex>>

-----------------------------------------------------------------------------
(* Bounds of the model                                                     *)

MaxPathLen == 5     \* longest enumerated input of normalizePath / normalizeUnixPath
MaxUp == 3          \* most leading "../" of the enumerated upward paths
MaxSchemeTokens == 4   \* most tokens concatenated into an input of getUriScheme
MaxPkgBody == 4     \* longest enumerated string after the protocol of a package specifier
MaxResolvePathTokens == 2   \* most tokens concatenated into a path given to resolveAsUrl
MaxResolveBaseTokens == 2   \* most tokens concatenated into a base given to resolveAsUrl
MaxPkgSlashes == 2  \* most slashes between the protocol and the package of a shaped specifier
MaxListChars == 5   \* most characters, separators included, that spell an enumerated list of paths
MaxBufLen == 4      \* longest byte buffer given to swapEndianess / swapEndianessFast
MaxByte == 2        \* largest byte of these buffers
MaxByteSize == 3    \* largest bytesize
MaxArrLen == 3      \* longest array given to sliceSkip / sliceSkipTypedSubarray
MaxSliceLength == 2 \* largest slice_length
MaxSkipLength == 2  \* largest skip_length
MaxRange == 2       \* largest start and end, to either side of 0

-----------------------------------------------------------------------------
(* Strings                                                                 *)

Undefined == <<"undefined">>
NoBase == <<"no-base">>

sep == "/"
DOT == <<".">>
DOTDOT == <<".", ".">>

\* the ASCII lower alpha characters
ALPHA == {"a", "b", "c", "d", "e", "f", "g", "h", "i", "j", "k", "l", "m", "n",
          "o", "p", "q", "r", "s", "t", "u", "v", "w", "x", "y", "z"}

RECURSIVE StringsUpTo(_, _)
StringsUpTo(alphabet, n) ==
    IF n = 0 THEN {<<>>}
    ELSE LET shorter == StringsUpTo(alphabet, n - 1)
         IN  shorter \cup {Append(s, c) : s \in shorter, c \in alphabet}

startsWith(str, prefix) ==
    /\ Len(str) >= Len(prefix)
    /\ SubSeq(str, 1, Len(prefix)) = prefix

endsWith(str, suffix) ==
    /\ Len(str) >= Len(suffix)
    /\ SubSeq(str, Len(str) - Len(suffix) + 1, Len(str)) = suffix

substring(str, from) == SubSeq(str, from + 1, Len(str))

\* String.prototype.split("/"): the pieces between the separators; "" gives [""]
RECURSIVE SplitAcc(_, _, _)
SplitAcc(str, i, cur) ==
    IF i > Len(str) THEN <<cur>>
    ELSE IF str[i] = sep THEN <<cur>> \o SplitAcc(str, i + 1, <<>>)
    ELSE SplitAcc(str, i + 1, Append(cur, str[i]))

split(str) == SplitAcc(str, 1, <<>>)

\* Array.prototype.join("/"): [] gives ""
RECURSIVE join(_)
join(segs) ==
    IF segs = <<>> THEN <<>>
    ELSE IF Len(segs) = 1 THEN segs[1]
    ELSE segs[1] \o <<sep>> \o join(Tail(segs))

\* path.replaceAll(/\\+/g, "/"): every maximal run of backslashes becomes one "/"
RECURSIVE pathToUnixPath(_)
pathToUnixPath(str) ==
    IF str = <<>> THEN <<>>
    ELSE IF Head(str) = "\\"
         THEN IF Len(str) > 1 /\ str[2] = "\\"
              THEN pathToUnixPath(Tail(str))
              ELSE <<sep>> \o pathToUnixPath(Tail(str))
         ELSE <<Head(str)>> \o pathToUnixPath(Tail(str))

\* Array.prototype.at(-1): undefined on an empty array
atLast(arr) == IF arr = <<>> THEN Undefined ELSE arr[Len(arr)]

\* Array.prototype.pop(): no effect on an empty array
pop(arr) == IF arr = <<>> THEN <<>> ELSE SubSeq(arr, 1, Len(arr) - 1)

\* Array.prototype.shift(): no effect on an empty array
shift(arr) == IF arr = <<>> THEN <<>> ELSE Tail(arr)

-----------------------------------------------------------------------------
(* What a call gives back: a value, or the error it threw                  *)

NoValue == [kind |-> "none"]
StringValue(s) == [kind |-> "string", val |-> s]
SchemeValue(s) == [kind |-> "scheme", val |-> s]
ErrorValue(name) == [kind |-> "error", val |-> name]

-----------------------------------------------------------------------------
(* getUriScheme                                                            *)

\* the values of the type UriScheme
UriScheme == {"undefined", "local", "relative", "file", "http", "https", "data", "jsr", "npm"}

\* a mutant of uri_protocol_and_scheme_mapping: "./" is loosened to "."
uri_protocol_and_scheme_mapping_LooseDot ==
    << <<<<"n", "p", "m", ":">>, "npm">>,
       <<<<"j", "s", "r", ":">>, "jsr">>,
       <<<<"d", "a", "t", "a", ":">>, "data">>,
       <<<<"h", "t", "t", "p", ":", "/", "/">>, "http">>,
       <<<<"h", "t", "t", "p", "s", ":", "/", "/">>, "https">>,
       <<<<"f", "i", "l", "e", ":", "/", "/">>, "file">>,
       <<<<".">>, "relative">>,
       <<<<".", ".", "/">>, "relative">> >>

\* the ordered table of [protocol, scheme] entries
uri_protocol_and_scheme_mapping ==
    << <<<<"n", "p", "m", ":">>, "npm">>,
       <<<<"j", "s", "r", ":">>, "jsr">>,
       <<<<"d", "a", "t", "a", ":">>, "data">>,
       <<<<"h", "t", "t", "p", ":", "/", "/">>, "http">>,
       <<<<"h", "t", "t", "p", "s", ":", "/", "/">>, "https">>,
       <<<<"f", "i", "l", "e", ":", "/", "/">>, "file">>,
       <<<<".", "/">>, "relative">>,
       <<<<".", ".", "/">>, "relative">> >>

\* the for-loop of getUriScheme over a table, from entry i on
RECURSIVE ScanSchemes(_, _, _)
ScanSchemes(table, p, i) ==
    IF i > Len(table) THEN "local"
    ELSE IF startsWith(p, table[i][1]) THEN table[i][2]
    ELSE ScanSchemes(table, p, i + 1)

getUriSchemeIn(table, p) ==
    IF p = <<>> THEN "undefined" ELSE ScanSchemes(table, p, 1)

\* a mutant of getUriScheme: an unmatched path gives undefined
getUriSchemeNoDefault(p) ==
    LET s == getUriSchemeIn(uri_protocol_and_scheme_mapping, p)
    IN  IF s = "local" THEN "undefined" ELSE s

\* a mutant of getUriScheme: the loop stops one entry short of the table's end
getUriSchemeSkipLast(p) ==
    getUriSchemeIn(SubSeq(uri_protocol_and_scheme_mapping, 1,
                          Len(uri_protocol_and_scheme_mapping) - 1), p)

getUriScheme(p) == getUriSchemeIn(uri_protocol_and_scheme_mapping, p)

-----------------------------------------------------------------------------
(* package_regex and parsePackageUrl                                       *)

\* the character class \s, and the line terminators that "." does not match
IsSpace(c) == c \in {" ", "\t", "\n", "\r"}
IsLineTerminator(c) == c \in {"\n", "\r"}

NotScopeChar(c) == c = "/" \/ IsSpace(c)                \* complement of [^\/\s]
NotPkgChar(c) == c = "@" \/ c = "/" \/ IsSpace(c)       \* complement of [^@\/\s]

\* the length of the longest run of [^\/\s] characters of str that starts at index i
RECURSIVE ScopeRun(_, _)
ScopeRun(str, i) ==
    IF i > Len(str) \/ NotScopeChar(str[i]) THEN 0 ELSE 1 + ScopeRun(str, i + 1)

\* the length of the longest run of [^@\/\s] characters of str that starts at index i
RECURSIVE PkgRun(_, _)
PkgRun(str, i) ==
    IF i > Len(str) \/ NotPkgChar(str[i]) THEN 0 ELSE 1 + PkgRun(str, i + 1)

\* the length of the run of "/" characters of str that starts at index i
RECURSIVE SlashRun(_, _)
SlashRun(str, i) ==
    IF i > Len(str) \/ str[i] # sep THEN 0 ELSE 1 + SlashRun(str, i + 1)

Groups(scope, pkg, version, pathname) ==
    [ok |-> TRUE, scope |-> scope, pkg |-> pkg, version |-> version, pathname |-> pathname]

NoMatch ==
    [ok |-> FALSE, scope |-> Undefined, pkg |-> Undefined, version |-> Undefined,
     pathname |-> Undefined]

\* (?<pathname>\/.*)?$ at index i: the rest as pathname, or nothing at the end of input
MatchPathname(str, i) ==
    IF i <= Len(str) /\ str[i] = sep /\ \A j \in i..Len(str) : ~ IsLineTerminator(str[j])
    THEN Groups(Undefined, Undefined, Undefined, SubSeq(str, i, Len(str)))
    ELSE IF i > Len(str)
    THEN Groups(Undefined, Undefined, Undefined, Undefined)
    ELSE NoMatch

\* a group's capture is recorded in a match that went through
WithGroup(m, name, captured) == IF m.ok THEN [m EXCEPT ![name] = captured] ELSE m

\* backtracking: the first alternative if it matches, the next one otherwise
OrElse(m, alternative) == IF m.ok THEN m ELSE alternative

\* (@(?<version>[^\/\s]+))? at index i, the version tried with n characters,
\* then with fewer, then the group skipped (n = 0)
RECURSIVE MatchVersion(_, _, _)
MatchVersion(str, i, n) ==
    IF n = 0 THEN MatchPathname(str, i)
    ELSE OrElse(WithGroup(MatchPathname(str, i + 1 + n), "version", SubSeq(str, i + 1, i + n)),
                MatchVersion(str, i, n - 1))

MatchVersionAt(str, i) ==
    MatchVersion(str, i, IF i <= Len(str) /\ str[i] = "@" THEN ScopeRun(str, i + 1) ELSE 0)

\* (?<pkg>[^@\/\s]+) at index i, tried with n characters, then with fewer
RECURSIVE MatchPkg(_, _, _)
MatchPkg(str, i, n) ==
    IF n = 0 THEN NoMatch
    ELSE OrElse(WithGroup(MatchVersionAt(str, i + n), "pkg", SubSeq(str, i, i + n - 1)),
                MatchPkg(str, i, n - 1))

MatchPkgAt(str, i) == MatchPkg(str, i, PkgRun(str, i))

\* (@(?<scope>[^\/\s]+)\/)? at index i, the scope tried with n characters,
\* then with fewer, then the group skipped (n = 0)
RECURSIVE MatchScope(_, _, _)
MatchScope(str, i, n) ==
    IF n = 0 THEN MatchPkgAt(str, i)
    ELSE OrElse(IF i + 1 + n <= Len(str) /\ str[i + 1 + n] = sep
                THEN WithGroup(MatchPkgAt(str, i + 2 + n), "scope", SubSeq(str, i + 1, i + n))
                ELSE NoMatch,
                MatchScope(str, i, n - 1))

MatchScopeAt(str, i) ==
    MatchScope(str, i, IF i <= Len(str) /\ str[i] = "@" THEN ScopeRun(str, i + 1) ELSE 0)

\* a mutant of MatchSlashes: at most one slash is taken before the package
MatchSlashesAtMostOne(str, i, n) ==
    OrElse(MatchScopeAt(str, i + (IF n > 0 THEN 1 ELSE 0)), MatchScopeAt(str, i))

\* \/* at index i, tried with n slashes, then with fewer, down to none
RECURSIVE MatchSlashes(_, _, _)
MatchSlashes(str, i, n) ==
    OrElse(MatchScopeAt(str, i + n),
           IF n = 0 THEN NoMatch ELSE MatchSlashes(str, i, n - 1))

\* the protocols the regex accepts
NPM == <<"n", "p", "m", ":">>
JSR == <<"j", "s", "r", ":">>

\* the groups of a match with (?<protocol>npm:|jsr:) in front; all undefined without a match
WithProtocol(m, protocol) ==
    IF m.ok THEN [protocol |-> protocol] @@ m ELSE [protocol |-> Undefined] @@ NoMatch

\* package_regex.exec(str)?.groups ?? {}: the named groups, undefined when
\* a group took no part in the match or when there is no match at all;
\* after the protocol comes the optional package group, then the pathname
package_regex_exec(str) ==
    IF ~ (startsWith(str, NPM) \/ startsWith(str, JSR))
    THEN WithProtocol(NoMatch, Undefined)
    ELSE WithProtocol(OrElse(MatchSlashes(str, Len(NPM) + 1, SlashRun(str, Len(NPM) + 1)),
                             MatchPathname(str, Len(NPM) + 1)),
                      SubSeq(str, 1, Len(NPM)))

\* `x ? x : undefined`: the empty string and undefined are both falsy
Truthy(x) == x # Undefined /\ x # <<>>

\* a mutant of PackagePseudoUrl: the host has no "@" before the version
PackagePseudoUrlVersionNoAt(protocol, scope, pkg, version, pathname) ==
    LET host == (IF Truthy(scope) THEN <<"@">> \o scope \o <<sep>> ELSE <<>>)
                \o pkg
                \o (IF Truthy(version) THEN version ELSE <<>>)
    IN  [kind |-> "package",
         href |-> protocol \o <<sep>> \o host \o pathname,
         protocol |-> protocol, scope |-> scope, pkg |-> pkg, version |-> version,
         pathname |-> pathname, host |-> host]

PackagePseudoUrl(protocol, scope, pkg, version, pathname) ==
    LET host == (IF Truthy(scope) THEN <<"@">> \o scope \o <<sep>> ELSE <<>>)
                \o pkg
                \o (IF Truthy(version) THEN <<"@">> \o version ELSE <<>>)
    IN  [kind |-> "package",
         href |-> protocol \o <<sep>> \o host \o pathname,
         protocol |-> protocol, scope |-> scope, pkg |-> pkg, version |-> version,
         pathname |-> pathname, host |-> host]

\* a mutant of parsePackageUrl: an absent pathname is not replaced by "/"
parsePackageUrlNoDefaultPathname(url_href) ==
    LET g == package_regex_exec(url_href)
    IN  IF g.protocol = Undefined \/ g.pkg = Undefined
        THEN ErrorValue("invalid package url format")
        ELSE PackagePseudoUrl(g.protocol,
                              IF Truthy(g.scope) THEN g.scope ELSE Undefined,
                              g.pkg,
                              IF Truthy(g.version) THEN g.version ELSE Undefined,
                              g.pathname)

\* a mutant of parsePackageUrl: only a missing protocol makes it throw
parsePackageUrlNoPkgCheck(url_href) ==
    LET g == package_regex_exec(url_href)
    IN  IF g.protocol = Undefined
        THEN ErrorValue("invalid package url format")
        ELSE PackagePseudoUrl(g.protocol,
                              IF Truthy(g.scope) THEN g.scope ELSE Undefined,
                              g.pkg,
                              IF Truthy(g.version) THEN g.version ELSE Undefined,
                              IF Truthy(g.pathname) THEN g.pathname ELSE <<sep>>)

\* the body of parsePackageUrl, on the groups of the match
PackageFromGroups(g) ==
    IF g.protocol = Undefined \/ g.pkg = Undefined
    THEN ErrorValue("invalid package url format")
    ELSE PackagePseudoUrl(g.protocol,
                          IF Truthy(g.scope) THEN g.scope ELSE Undefined,
                          g.pkg,
                          IF Truthy(g.version) THEN g.version ELSE Undefined,
                          IF Truthy(g.pathname) THEN g.pathname ELSE <<sep>>)

parsePackageUrl(url_href) == PackageFromGroups(package_regex_exec(url_href))

-----------------------------------------------------------------------------
(* The URL constructor that resolveAsUrl calls (`new URL(input, base)`),   *)
(* after the WHATWG URL standard's basic URL parser and URL serializer.    *)
(* Modelled for inputs without "?", "#", "%", "[", digits and uppercase    *)
(* letters: queries, fragments, percent-decoding, IPv6/IPv4 hosts and      *)
(* case folding do not occur in the inputs enumerated here.                *)

IsAlpha(c) == c \in ALPHA
IsDigit(c) == c \in {"0", "1", "2", "3", "4", "5", "6", "7", "8", "9"}
IsSchemeChar(c) == IsAlpha(c) \/ IsDigit(c) \/ c \in {"+", "-", "."}

C0ControlOrSpace == {" ", "\t", "\n", "\r"}
TabOrNewline == {"\t", "\n", "\r"}
ForbiddenHostCodePoints ==
    {" ", "\t", "\n", "\r", "#", "/", ":", "<", ">", "?", "@", "[", "\\", "]", "^", "|"}
ForbiddenDomainCodePoints == ForbiddenHostCodePoints \cup {"%"}
SpecialSchemes ==
    {<<"h", "t", "t", "p">>, <<"h", "t", "t", "p", "s">>, <<"f", "t", "p">>,
     <<"w", "s">>, <<"w", "s", "s">>, <<"f", "i", "l", "e">>}
FILE == <<"f", "i", "l", "e">>
IsSpecial(scheme) == scheme \in SpecialSchemes

UrlFailure == ErrorValue("TypeError: Invalid URL")

RECURSIVE StripLeading(_)
StripLeading(str) ==
    IF str # <<>> /\ Head(str) \in C0ControlOrSpace THEN StripLeading(Tail(str)) ELSE str

RECURSIVE StripTrailing(_)
StripTrailing(str) ==
    IF str # <<>> /\ str[Len(str)] \in C0ControlOrSpace
    THEN StripTrailing(SubSeq(str, 1, Len(str) - 1))
    ELSE str

RemoveTabOrNewline(str) == SelectSeq(str, LAMBDA c : c \notin TabOrNewline)

\* the index of the first character of str at or after i that is in stops; Len(str) + 1 if none
RECURSIVE FindEnd(_, _, _)
FindEnd(str, i, stops) ==
    IF i > Len(str) \/ str[i] \in stops THEN i ELSE FindEnd(str, i + 1, stops)

\* the character at index i, or "EOF" past the end
CharAt(str, i) == IF i >= 1 /\ i <= Len(str) THEN str[i] ELSE "EOF"

\* the length of the scheme that str starts with (its ":" excluded); 0 if str has no scheme
RECURSIVE SchemeRun(_, _)
SchemeRun(str, i) ==
    IF i <= Len(str) /\ IsSchemeChar(str[i]) THEN 1 + SchemeRun(str, i + 1) ELSE 0

SchemeLength(str) ==
    IF str # <<>> /\ IsAlpha(str[1])
    THEN LET n == SchemeRun(str, 1)
         IN  IF CharAt(str, n + 1) = ":" THEN n ELSE 0
    ELSE 0

IsWindowsDriveLetter(buf) == Len(buf) = 2 /\ IsAlpha(buf[1]) /\ buf[2] \in {":", "|"}
IsNormalizedWindowsDriveLetter(buf) == Len(buf) = 2 /\ IsAlpha(buf[1]) /\ buf[2] = ":"
StartsWithWindowsDriveLetter(str, i) ==
    /\ i + 1 <= Len(str)
    /\ IsWindowsDriveLetter(SubSeq(str, i, i + 1))
    /\ (i + 1 = Len(str) \/ str[i + 2] \in {"/", "\\", "?", "#"})

\* the path percent-encode set, on the characters that occur here: the space
RECURSIVE PercentEncodePath(_)
PercentEncodePath(buf) ==
    IF buf = <<>> THEN <<>>
    ELSE (IF Head(buf) = " " THEN <<"%", "2", "0">> ELSE <<Head(buf)>>)
         \o PercentEncodePath(Tail(buf))

\* "shorten a url's path"
ShortenPath(scheme, urlpath) ==
    IF scheme = FILE /\ Len(urlpath) = 1 /\ IsNormalizedWindowsDriveLetter(urlpath[1])
    THEN urlpath
    ELSE pop(urlpath)

\* the code points that end a path segment (and an authority)
PathStops(scheme) == IF IsSpecial(scheme) THEN {"/", "\\"} ELSE {"/"}

\* the path after the segment buf is taken in; atSlash: a slash follows it
PathSegment(scheme, urlpath, buf, atSlash) ==
    IF buf = DOTDOT
    THEN IF atSlash THEN ShortenPath(scheme, urlpath)
         ELSE Append(ShortenPath(scheme, urlpath), <<>>)
    ELSE IF buf = DOT
    THEN IF atSlash THEN urlpath ELSE Append(urlpath, <<>>)
    ELSE IF scheme = FILE /\ urlpath = <<>> /\ IsWindowsDriveLetter(buf)
    THEN <<<<buf[1], ":">>>>
    ELSE Append(urlpath, buf)

RECURSIVE PathState(_, _, _, _)

\* after the segment that ended at index e: on to the next one, or the end of input
PathNext(scheme, newpath, str, e) ==
    IF e <= Len(str) THEN PathState(scheme, newpath, str, e + 1) ELSE newpath

\* path state, from the first character (index i) of a segment to the end of input
PathState(scheme, urlpath, str, i) ==
    PathNext(scheme,
             PathSegment(scheme, urlpath,
                         PercentEncodePath(SubSeq(str, i, FindEnd(str, i, PathStops(scheme)) - 1)),
                         FindEnd(str, i, PathStops(scheme)) <= Len(str)),
             str, FindEnd(str, i, PathStops(scheme)))

\* path start state, at index i
PathStartState(scheme, str, i) ==
    IF ~ IsSpecial(scheme) /\ i > Len(str) THEN <<>>
    ELSE PathState(scheme, <<>>, str,
                   IF CharAt(str, i) = "/" \/ (IsSpecial(scheme) /\ CharAt(str, i) = "\\")
                   THEN i + 1
                   ELSE i)

UrlRecord(scheme, username, password, host, port, opaque, urlpath) ==
    [kind |-> "url", scheme |-> scheme, username |-> username, password |-> password,
     host |-> host, port |-> port, opaque |-> opaque, path |-> urlpath]

\* host parser: an opaque host for a non-special scheme, a domain for a special one
HostParse(buf, special) ==
    IF special
    THEN IF buf = <<>> \/ \E k \in 1..Len(buf) : buf[k] \in ForbiddenDomainCodePoints
         THEN Undefined
         ELSE buf
    ELSE IF \E k \in 1..Len(buf) : buf[k] \in ForbiddenHostCodePoints
         THEN Undefined
         ELSE buf

RECURSIVE LastIndexOf(_, _)
LastIndexOf(str, c) ==
    IF str = <<>> THEN 0
    ELSE IF str[Len(str)] = c THEN Len(str)
    ELSE LastIndexOf(SubSeq(str, 1, Len(str) - 1), c)

\* the userinfo percent-encode set, on the characters that occur here
RECURSIVE PercentEncodeUserinfo(_)
PercentEncodeUserinfo(buf) ==
    IF buf = <<>> THEN <<>>
    ELSE (CASE Head(buf) = " " -> <<"%", "2", "0">>
            [] Head(buf) = "@" -> <<"%", "4", "0">>
            [] Head(buf) = ":" -> <<"%", "3", "A">>
            [] Head(buf) = "\\" -> <<"%", "5", "C">>
            [] OTHER -> <<Head(buf)>>)
         \o PercentEncodeUserinfo(Tail(buf))

DefaultPort(scheme) ==
    CASE scheme = <<"h", "t", "t", "p">> -> <<"8", "0">>
      [] scheme = <<"w", "s">> -> <<"8", "0">>
      [] scheme = <<"h", "t", "t", "p", "s">> -> <<"4", "4", "3">>
      [] scheme = <<"w", "s", "s">> -> <<"4", "4", "3">>
      [] scheme = <<"f", "t", "p">> -> <<"2", "1">>
      [] OTHER -> <<>>

\* the authority auth (what stands between "//" and the path) taken apart:
\* credentials before the last "@", then host and port around the first ":"
SplitAuthority(auth) ==
    LET lastAt == LastIndexOf(auth, "@")
        cred == SubSeq(auth, 1, lastAt - 1)
        colonC == FindEnd(cred, 1, {":"})
        hostport == SubSeq(auth, lastAt + 1, Len(auth))
        colonH == FindEnd(hostport, 1, {":"})
    IN  [hasAt |-> lastAt > 0,
         username |-> PercentEncodeUserinfo(SubSeq(cred, 1, colonC - 1)),
         password |-> PercentEncodeUserinfo(SubSeq(cred, colonC + 1, Len(cred))),
         hostport |-> hostport,
         hasColon |-> colonH <= Len(hostport),
         hostbuf |-> SubSeq(hostport, 1, colonH - 1),
         portbuf |-> SubSeq(hostport, colonH + 1, Len(hostport))]

\* authority state, host state and port state on the authority a, whose host
\* parsed to host; then the path, from index e
AuthorityParsed(scheme, a, host, str, e) ==
    IF a.hasAt /\ a.hostport = <<>> THEN UrlFailure
    ELSE IF a.hasColon /\ a.hostbuf = <<>> THEN UrlFailure
    ELSE IF IsSpecial(scheme) /\ a.hostbuf = <<>> THEN UrlFailure
    ELSE IF host = Undefined THEN UrlFailure
    ELSE IF \E k \in 1..Len(a.portbuf) : ~ IsDigit(a.portbuf[k]) THEN UrlFailure
    ELSE IF Len(a.portbuf) > 4 THEN UrlFailure
    ELSE UrlRecord(scheme, a.username, a.password, host,
                   IF a.portbuf = DefaultPort(scheme) THEN <<>> ELSE a.portbuf,
                   FALSE, PathStartState(scheme, str, e))

AuthoritySplit(scheme, a, str, e) ==
    AuthorityParsed(scheme, a, HostParse(a.hostbuf, IsSpecial(scheme)), str, e)

\* authority state, from index i: the authority ends at index e
AuthorityUpTo(scheme, str, i, e) == AuthoritySplit(scheme, SplitAuthority(SubSeq(str, i, e - 1)), str, e)

AuthorityState(scheme, str, i) ==
    AuthorityUpTo(scheme, str, i, FindEnd(str, i, PathStops(scheme)))

\* special authority slashes / special authority ignore slashes states
RECURSIVE SkipSlashes(_, _)
SkipSlashes(str, i) ==
    IF CharAt(str, i) \in {"/", "\\"} THEN SkipSlashes(str, i + 1) ELSE i

\* file host state on the buffer buf, whose host parsed to host; the path from index e
FileHostParsed(buf, host, str, i, e) ==
    IF IsWindowsDriveLetter(buf)
    THEN UrlRecord(FILE, <<>>, <<>>, <<>>, <<>>, FALSE, PathState(FILE, <<>>, str, i))
    ELSE IF buf # <<>> /\ host = Undefined THEN UrlFailure
    ELSE UrlRecord(FILE, <<>>, <<>>,
                   IF buf = <<>> \/ host = <<"l", "o", "c", "a", "l", "h", "o", "s", "t">>
                   THEN <<>>
                   ELSE host,
                   <<>>, FALSE, PathStartState(FILE, str, e))

FileHostUpTo(str, i, e) ==
    FileHostParsed(SubSeq(str, i, e - 1), HostParse(SubSeq(str, i, e - 1), TRUE), str, i, e)

\* file host state, at index i
FileHostState(str, i) == FileHostUpTo(str, i, FindEnd(str, i, {"/", "\\"}))

BaseIsFile(baseurl) == baseurl.kind = "url" /\ baseurl.scheme = FILE

\* file slash state, at index i, when no second slash follows: the path
\* starts from the drive letter of a file base, if it has one and the input has none
FileSlashStart(str, i, baseurl) ==
    IF /\ BaseIsFile(baseurl)
       /\ ~ StartsWithWindowsDriveLetter(str, i)
       /\ baseurl.path # <<>>
       /\ IsNormalizedWindowsDriveLetter(baseurl.path[1])
    THEN <<baseurl.path[1]>>
    ELSE <<>>

\* file state and file slash state, at index i (just after "file:", or at the
\* start of a scheme-less input whose base is a file url)
FileState(str, i, baseurl) ==
    IF CharAt(str, i) \in {"/", "\\"} /\ CharAt(str, i + 1) \in {"/", "\\"}
    THEN FileHostState(str, i + 2)
    ELSE IF BaseIsFile(baseurl) /\ i > Len(str)
    THEN UrlRecord(FILE, <<>>, <<>>, baseurl.host, <<>>, FALSE, baseurl.path)
    ELSE UrlRecord(FILE, <<>>, <<>>,
                   IF BaseIsFile(baseurl) THEN baseurl.host ELSE <<>>,
                   <<>>, FALSE,
                   IF CharAt(str, i) \in {"/", "\\"}
                   THEN PathState(FILE, FileSlashStart(str, i + 1, baseurl), str, i + 1)
                   ELSE PathState(FILE,
                                  IF BaseIsFile(baseurl) /\ ~ StartsWithWindowsDriveLetter(str, i)
                                  THEN ShortenPath(FILE, baseurl.path)
                                  ELSE <<>>,
                                  str, i))

\* relative state and relative slash state, at index i, against a base that
\* is not a file url and has no opaque path
RelativeState(str, i, baseurl) ==
    IF CharAt(str, i) = "/" \/ (IsSpecial(baseurl.scheme) /\ CharAt(str, i) = "\\")
    THEN IF \/ CharAt(str, i + 1) = "/"
            \/ (IsSpecial(baseurl.scheme) /\ CharAt(str, i + 1) = "\\")
         THEN AuthorityState(baseurl.scheme, str,
                             IF IsSpecial(baseurl.scheme) THEN SkipSlashes(str, i + 2) ELSE i + 2)
         ELSE [baseurl EXCEPT !.path = PathState(baseurl.scheme, <<>>, str, i + 1)]
    ELSE IF i > Len(str) THEN baseurl
    ELSE [baseurl EXCEPT
             !.path = PathState(baseurl.scheme, ShortenPath(baseurl.scheme, baseurl.path),
                                str, i)]

\* scheme state is over: str starts with a scheme of n characters and ":"
\* (n > 0), or has no scheme (n = 0, no scheme state)
AfterScheme(str, n, baseurl) ==
    IF n > 0
    THEN IF SubSeq(str, 1, n) = FILE THEN FileState(str, n + 2, NoValue)
         ELSE IF IsSpecial(SubSeq(str, 1, n))
         THEN IF /\ baseurl.kind = "url"
                 /\ baseurl.scheme = SubSeq(str, 1, n)
                 /\ ~ (CharAt(str, n + 2) = "/" /\ CharAt(str, n + 3) = "/")
              THEN RelativeState(str, n + 2, baseurl)
              ELSE AuthorityState(SubSeq(str, 1, n), str, SkipSlashes(str, n + 2))
         ELSE IF CharAt(str, n + 2) = "/"
         THEN IF CharAt(str, n + 3) = "/"
              THEN AuthorityState(SubSeq(str, 1, n), str, n + 4)
              ELSE UrlRecord(SubSeq(str, 1, n), <<>>, <<>>, Undefined, <<>>, FALSE,
                             PathState(SubSeq(str, 1, n), <<>>, str, n + 3))
         ELSE UrlRecord(SubSeq(str, 1, n), <<>>, <<>>, Undefined, <<>>, TRUE,
                        SubSeq(str, n + 2, Len(str)))
    ELSE IF baseurl.kind # "url" THEN UrlFailure
    ELSE IF baseurl.opaque THEN UrlFailure
    ELSE IF baseurl.scheme = FILE THEN FileState(str, 1, baseurl)
    ELSE RelativeState(str, 1, baseurl)

\* scheme start state and scheme state, on the input stripped of what is ignored
SchemeState(str, baseurl) == AfterScheme(str, SchemeLength(str), baseurl)

\* the basic URL parser
BasicUrlParse(input, baseurl) ==
    SchemeState(RemoveTabOrNewline(StripTrailing(StripLeading(input))), baseurl)

\* the input parsed against a base that was itself parsed first
ParseAgainst(input, baseurl) ==
    IF baseurl.kind # "url" THEN UrlFailure ELSE BasicUrlParse(input, baseurl)

\* new URL(input, base): base is a string, or NoBase for undefined
URL(input, basestr) ==
    IF basestr = NoBase THEN BasicUrlParse(input, NoValue)
    ELSE ParseAgainst(input, BasicUrlParse(basestr, NoValue))

RECURSIVE SerializePath(_)
SerializePath(urlpath) ==
    IF urlpath = <<>> THEN <<>> ELSE <<sep>> \o Head(urlpath) \o SerializePath(Tail(urlpath))

\* URL.pathname
Pathname(url) == IF url.opaque THEN url.path ELSE SerializePath(url.path)

\* URL.protocol
Protocol(url) == url.scheme \o <<":">>

\* URL.href: the URL serializer
Href(url) ==
    url.scheme \o <<":">>
    \o (IF url.host # Undefined
        THEN <<"/", "/">>
             \o (IF url.username # <<>> \/ url.password # <<>>
                 THEN url.username
                      \o (IF url.password # <<>> THEN <<":">> \o url.password ELSE <<>>)
                      \o <<"@">>
                 ELSE <<>>)
             \o url.host
             \o (IF url.port # <<>> THEN <<":">> \o url.port ELSE <<>>)
        ELSE IF ~ url.opaque /\ Len(url.path) > 1 /\ url.path[1] = <<>>
        THEN <<"/", ".">>
        ELSE <<>>)
    \o Pathname(url)

-----------------------------------------------------------------------------
(* resolveAsUrl                                                            *)

FILE_PROTOCOL == <<"f", "i", "l", "e", ":", "/", "/">>

\* the arguments of a `new URL(input, base)` that is about to be made
UrlArgs(input, basestr) == [kind |-> "args", input |-> input, base |-> basestr]

\* `new URL(...)` on the arguments made ready, unless an error was thrown before
Construct(args) == IF args.kind = "error" THEN args ELSE URL(args.input, args.base)

\* a mutant of PackageJoined: the host is left out of the href
PackageJoinedNoHost(pkg, joined) ==
    IF joined.kind = "error" THEN joined
    ELSE UrlArgs(pkg.protocol \o Pathname(joined), NoBase)

\* href = `${protocol}/${host}${full_pathname}`, from the package url of the
\* base and the url that joined the relative path to its pathname
PackageJoined(pkg, joined) ==
    IF joined.kind = "error" THEN joined
    ELSE UrlArgs(pkg.protocol \o <<sep>> \o pkg.host \o Pathname(joined), NoBase)

\* a relative path against a jsr or npm base, parsed to pkg: the path is
\* joined to the base's pathname under the fake protocol "x:"
RelativeToPackage(p, pkg) ==
    IF pkg.kind = "error" THEN pkg
    ELSE PackageJoined(pkg, URL(p, <<"x", ":">> \o pkg.pathname))

\* a mutant of PackageHref: a rejected specifier is swallowed, the url of the
\* bare protocol is made instead
PackageHrefSwallowed(pkg) ==
    IF pkg.kind = "error" THEN UrlArgs(NPM \o <<sep>>, NoBase) ELSE UrlArgs(pkg.href, NoBase)

\* parsePackageUrl(path).href, as the argument of the url to make
PackageHref(pkg) == IF pkg.kind = "error" THEN pkg ELSE UrlArgs(pkg.href, NoBase)

\* a mutant of DispatchOn: a local path is resolved against the base url
DispatchOnLocalAgainstBase(path_scheme, p, base_url, no_base_default) ==
    IF path_scheme = "local"
    THEN IF base_url.kind = "url" THEN UrlArgs(p, Href(base_url))
         ELSE UrlArgs(FILE_PROTOCOL \o p, NoBase)
    ELSE IF path_scheme \in {"jsr", "npm"} THEN PackageHref(parsePackageUrl(p))
    ELSE IF path_scheme = "relative"
    THEN IF base_url.kind # "url" THEN UrlArgs(p, no_base_default)
         ELSE IF Protocol(base_url) \notin {JSR, NPM} THEN UrlArgs(p, Href(base_url))
         ELSE RelativeToPackage(p, parsePackageUrl(Href(base_url)))
    ELSE UrlArgs(p, NoBase)

\* a mutant of DispatchOn: a relative path is resolved against a package base
\* as against any other url, by the rules of the URL constructor
DispatchOnPackageAsUrl(path_scheme, p, base_url, no_base_default) ==
    IF path_scheme = "local" THEN UrlArgs(FILE_PROTOCOL \o p, NoBase)
    ELSE IF path_scheme \in {"jsr", "npm"} THEN PackageHref(parsePackageUrl(p))
    ELSE IF path_scheme = "relative"
    THEN IF base_url.kind # "url" THEN UrlArgs(p, no_base_default)
         ELSE UrlArgs(p, Href(base_url))
    ELSE UrlArgs(p, NoBase)

\* the branches of resolveAsUrl on path_scheme, the scheme of the converted
\* path, given base_url (a url record, or NoValue when it is undefined);
\* no_base_default is the base `new URL(path, base_url)` gets when base_url
\* is undefined
DispatchOn(path_scheme, p, base_url, no_base_default) ==
    IF path_scheme = "local" THEN UrlArgs(FILE_PROTOCOL \o p, NoBase)
    ELSE IF path_scheme \in {"jsr", "npm"} THEN PackageHref(parsePackageUrl(p))
    ELSE IF path_scheme = "relative"
    THEN IF base_url.kind # "url" THEN UrlArgs(p, no_base_default)
         ELSE IF Protocol(base_url) \notin {JSR, NPM} THEN UrlArgs(p, Href(base_url))
         ELSE RelativeToPackage(p, parsePackageUrl(Href(base_url)))
    ELSE UrlArgs(p, NoBase)

ResolveDispatch(p, base_url, no_base_default) ==
    Construct(DispatchOn(getUriScheme(p), p, base_url, no_base_default))

\* resolveAsUrl(base) as called on a base string: without a base of its own
ResolveBase(basestr) == ResolveDispatch(pathToUnixPath(basestr), NoValue, NoBase)

\* the rest of resolveAsUrl once base_url is there, unless making it threw
ResolveAgainst(p, base_url, no_base_default) ==
    IF base_url.kind = "error" THEN base_url
    ELSE ResolveDispatch(p, base_url, no_base_default)

\* a mutant of ResolveWith: the scheme of the base is checked only for a
\* relative path, the base is left aside for every other path
ResolveWithLateBaseCheck(p, basestr, no_base_default) ==
    IF basestr # NoBase /\ getUriScheme(basestr) \in {"data", "relative"}
    THEN IF getUriScheme(pathToUnixPath(p)) = "relative"
         THEN ErrorValue("the following base scheme (url-protocol) is not supported")
         ELSE ResolveAgainst(pathToUnixPath(p), NoValue, no_base_default)
    ELSE ResolveAgainst(pathToUnixPath(p),
                        IF basestr = NoBase THEN NoValue ELSE ResolveBase(basestr),
                        no_base_default)

ResolveWith(p, basestr, no_base_default) ==
    IF basestr # NoBase /\ getUriScheme(basestr) \in {"data", "relative"}
    THEN ErrorValue("the following base scheme (url-protocol) is not supported")
    ELSE ResolveAgainst(pathToUnixPath(p),
                        IF basestr = NoBase THEN NoValue ELSE ResolveBase(basestr),
                        no_base_default)

\* a mutant of resolveAsUrl: a relative path without a base is resolved
\* against the root of the file system
resolveAsUrlDefaultBase(p, basestr) ==
    ResolveWith(p, basestr, <<"f", "i", "l", "e", ":", "/", "/", "/">>)

resolveAsUrl(p, basestr) == ResolveWith(p, basestr, NoBase)

\* a call of resolveAsUrl(p, basestr) that has not returned: its arguments,
\* and whether `resolveAsUrl(base)` has come back to it
ResolveFrame(p, basestr) == [path |-> p, base |-> basestr, has_base_url |-> FALSE]

\* the call has a base string of a supported scheme, and has not resolved it yet
NeedsBaseUrl(frame) ==
    /\ frame.base # NoBase
    /\ getUriScheme(frame.base) \notin {"data", "relative"}
    /\ ~ frame.has_base_url

\* a mutant of BaseCall: the base string is resolved with itself as its base
BaseCallWithBase(frame) == ResolveFrame(frame.base, frame.base)

\* `resolveAsUrl(base)`: the call that resolves the base string of the call
\* frame, with no base of its own
BaseCall(frame) == ResolveFrame(frame.base, NoBase)

\* the stack of calls after the call on top of stk came back: the call
\* below, if there is one, has its base_url
AfterReturn(stk) ==
    IF Len(stk) = 1 THEN <<>>
    ELSE [pop(stk) EXCEPT ![Len(stk) - 1].has_base_url = TRUE]

\* what the call returns or throws: if `resolveAsUrl(base)` came back with
\* base_url (a url, or the error it threw), the rest of resolveAsUrl; if it
\* was never called, all of resolveAsUrl
FrameResult(frame, base_url) ==
    IF frame.has_base_url
    THEN ResolveAgainst(pathToUnixPath(frame.path), base_url, NoBase)
    ELSE resolveAsUrl(frame.path, frame.base)

-----------------------------------------------------------------------------
(* normalizeUnixPath and normalizePath                                     *)

\* the stack the loop starts from: the ".." sentinel
InitialOutputSegments == <<DOTDOT>>

\* a mutant of NormalizeSegment: ".." pops whatever is on top of the stack
NormalizeSegmentAlwaysPop(out, segment) ==
    IF segment = DOTDOT THEN pop(out)
    ELSE IF segment # DOT THEN Append(out, segment)
    ELSE out

\* a mutant of NormalizeSegment: empty segments are dropped like "." segments
NormalizeSegmentDropEmpty(out, segment) ==
    IF segment = DOTDOT
    THEN IF atLast(out) # DOTDOT THEN pop(out) ELSE Append(out, segment)
    ELSE IF segment # DOT /\ segment # <<>> THEN Append(out, segment)
    ELSE out

\* a mutant of NormalizeSegment: a ".." segment is pushed like any other
NormalizeSegmentPushDotDot(out, segment) ==
    IF segment # DOT THEN Append(out, segment) ELSE out

\* one iteration of the for-loop of normalizeUnixPath
NormalizeSegment(out, segment) ==
    IF segment = DOTDOT
    THEN IF atLast(out) # DOTDOT THEN pop(out) ELSE Append(out, segment)
    ELSE IF segment # DOT THEN Append(out, segment)
    ELSE out

\* a mutant of NormalizeFinish: the sentinel is left in the stack
NormalizeFinishKeepSentinel(out) == join(out)

\* the end of normalizeUnixPath: drop the sentinel, join with "/"
NormalizeFinish(out) == join(shift(out))

RECURSIVE NormalizeLoop(_, _)
NormalizeLoop(segs, out) ==
    IF segs = <<>> THEN out
    ELSE NormalizeLoop(Tail(segs), NormalizeSegment(out, Head(segs)))

normalizeUnixPath(p) == NormalizeFinish(NormalizeLoop(split(p), InitialOutputSegments))

normalizePath(p) == normalizeUnixPath(pathToUnixPath(p))

-----------------------------------------------------------------------------
(* trimStartSlashes, trimEndSlashes, ensureEndSlash, trimDotSlashes,       *)
(* joinSlash                                                               *)

\* str.replace(/^\/+/, ""): the leading slashes are removed
RECURSIVE trimStartSlashes(_)
trimStartSlashes(str) ==
    IF str # <<>> /\ Head(str) = sep THEN trimStartSlashes(Tail(str)) ELSE str

\* str.replace(/\/+$/, ""): the trailing slashes are removed
RECURSIVE trimEndSlashes(_)
trimEndSlashes(str) ==
    IF str # <<>> /\ str[Len(str)] = sep THEN trimEndSlashes(pop(str)) ELSE str

\* a mutant of ensureEndSlash: a slash is appended in every case
ensureEndSlashAlways(str) == str \o <<sep>>

ensureEndSlash(str) == IF endsWith(str, <<sep>>) THEN str ELSE str \o <<sep>>

\* str.replace(/^(\.?\/)+/, ""): the leading run of "/" and "./" is removed
RECURSIVE RemoveLeadingDotSlashes(_)
RemoveLeadingDotSlashes(str) ==
    IF startsWith(str, <<".", sep>>) THEN RemoveLeadingDotSlashes(SubSeq(str, 3, Len(str)))
    ELSE IF startsWith(str, <<sep>>) THEN RemoveLeadingDotSlashes(Tail(str))
    ELSE str

trimDotSlashes(str) == trimEndSlashes(RemoveLeadingDotSlashes(str))

\* segments.map(trimDotSlashes).reduce((output, subpath) => output + sep + subpath, output)
RECURSIVE JoinReduce(_, _)
JoinReduce(output, segs) ==
    IF segs = <<>> THEN output
    ELSE JoinReduce(output \o <<sep>> \o trimDotSlashes(Head(segs)), Tail(segs))

\* a mutant of joinSlash: the segments are joined as they are, untrimmed
joinSlashUntrimmed(segs) == trimStartSlashes(<<sep>> \o join(segs))

joinSlash(segs) == trimStartSlashes(JoinReduce(<<>>, segs))

-----------------------------------------------------------------------------
(* commonNormalizedUnixPath, commonPath, commonPathTransform,              *)
(* commonPathReplace                                                       *)

\* the number of leading characters, from k on, that all the strings share
RECURSIVE CommonPrefixLength(_, _)
CommonPrefixLength(strs, k) ==
    IF \A i \in 1..Len(strs) : Len(strs[i]) > k /\ strs[i][k + 1] = strs[1][k + 1]
    THEN CommonPrefixLength(strs, k + 1)
    ELSE k

\* commonPrefix of stringman: the longest common character-prefix of the
\* strings of a non-empty list
commonPrefix(strs) == SubSeq(strs[1], 1, CommonPrefixLength(strs, 0))

\* common_prefix.slice(0, common_prefix.lastIndexOf("/") + 1)
CommonDirPrefix(common_prefix) ==
    SubSeq(common_prefix, 1, LastIndexOf(common_prefix, sep))

\* a mutant of CommonDirLoop: the common prefix is returned as it is, also
\* when a path does not go on with "/"
RECURSIVE CommonDirLoopNoCut(_, _, _)
CommonDirLoopNoCut(ps, i, common_prefix) ==
    IF i > Len(ps) THEN common_prefix
    ELSE IF ~ startsWith(substring(ps[i], Len(common_prefix)), <<sep>>)
    THEN common_prefix
    ELSE CommonDirLoopNoCut(ps, i + 1, common_prefix)

\* the for-loop of commonNormalizedUnixPath, from the i-th path on
RECURSIVE CommonDirLoop(_, _, _)
CommonDirLoop(ps, i, common_prefix) ==
    IF i > Len(ps) THEN common_prefix
    ELSE IF ~ startsWith(substring(ps[i], Len(common_prefix)), <<sep>>)
    THEN CommonDirPrefix(common_prefix)
    ELSE CommonDirLoop(ps, i + 1, common_prefix)

commonNormalizedUnixPath(ps) == CommonDirLoop(ps, 1, commonPrefix(ps))

\* paths.map(normalizePath)
NormalPaths(ps) == [i \in 1..Len(ps) |-> normalizePath(ps[i])]

commonPath(ps) == commonNormalizedUnixPath(NormalPaths(ps))

\* a mutant of PathInfosOf: the subpath keeps the last character of common_dir
PathInfosOfOverlapping(normal_paths, common_dir) ==
    [i \in 1..Len(normal_paths) |->
        <<common_dir,
          IF common_dir = <<>> THEN normal_paths[i]
          ELSE SubSeq(normal_paths[i], Len(common_dir), Len(normal_paths[i]))>>]

\* array_from(normal_paths, normal_path => [common_dir, normal_path.slice(common_dir_length)])
PathInfosOf(normal_paths, common_dir) ==
    [i \in 1..Len(normal_paths) |->
        <<common_dir, SubSeq(normal_paths[i], Len(common_dir) + 1, Len(normal_paths[i]))>>]

PathInfosFrom(normal_paths) ==
    PathInfosOf(normal_paths, commonNormalizedUnixPath(normal_paths))

\* the path_infos of commonPathTransform(paths, map_fn)
PathInfos(ps) == PathInfosFrom(NormalPaths(ps))

\* the map functions a caller passes: the doc-tests' subpath_map_fn, the
\* identity on path_info, an index-aware one, and the closure that
\* commonPathReplace passes (which reads its new_common_dir)
MapFns == {"subpath_map_fn", "identity", "indexed"}

\* map_fn(path_info, index, path_infos), for the map function named f; dir is
\* the new_common_dir that the closure of commonPathReplace captured
ApplyMapFn(f, path_info, index, dir) ==
    CASE f = "subpath_map_fn" -> path_info[2]
      [] f = "identity" -> path_info
      [] f = "indexed" -> <<index, path_info[2]>>
      [] f = "replace" -> dir \o path_info[2]

ListValue(l) == [kind |-> "list", val |-> l]

-----------------------------------------------------------------------------
(* parseNormalizedUnixFilename, parseBasenameAndExtname_FromFilename,      *)
(* parseFilepathInfo                                                       *)

\* a mutant of FilenameMatchesAt: slashes may follow the name, as if the
\* regex were /\/?[^\/]+\/*$/
FilenameMatchesAtBeforeSlashes(str, i) ==
    \E e \in (IF str[i] = sep THEN i + 1 ELSE i)..Len(str) :
        /\ \A k \in (IF str[i] = sep THEN i + 1 ELSE i)..e : str[k] # sep
        /\ \A k \in (e + 1)..Len(str) : str[k] = sep

\* filename_regex /\/?[^\/]+$/ matches at index i: an optional slash, then
\* one or more characters other than "/" up to the end
FilenameMatchesAt(str, i) ==
    /\ (IF str[i] = sep THEN i + 1 ELSE i) <= Len(str)
    /\ \A k \in (IF str[i] = sep THEN i + 1 ELSE i)..Len(str) : str[k] # sep

\* filename_regex.exec(file_path)?.[0] ?? "": the leftmost match, searched from index i on
RECURSIVE filename_regex_exec(_, _)
filename_regex_exec(str, i) ==
    IF i > Len(str) THEN <<>>
    ELSE IF FilenameMatchesAt(str, i) THEN SubSeq(str, i, Len(str))
    ELSE filename_regex_exec(str, i + 1)

\* a mutant of parseNormalizedUnixFilename: the leading slash of the match is kept
parseNormalizedUnixFilenameKeepSlash(file_path) == filename_regex_exec(file_path, 1)

parseNormalizedUnixFilename(file_path) == trimStartSlashes(filename_regex_exec(file_path, 1))

\* (?<ext>\.[^\.]+)?$ matches with the group taking part, after n characters
ExtMatchesAfter(str, n) ==
    /\ n + 2 <= Len(str)
    /\ str[n + 1] = "."
    /\ \A k \in (n + 2)..Len(str) : str[k] # "."

\* basename_and_extname_regex /^(?<basename>.+?)(?<ext>\.[^\.]+)?$/ on str, the
\* lazy basename tried with n characters, then with more; the groups are
\* [basename, ext], both "" (their default) without a match, ext "" when its
\* group took no part
RECURSIVE basename_and_extname_regex_exec(_, _)
basename_and_extname_regex_exec(str, n) ==
    IF n > Len(str) THEN <<<<>>, <<>>>>
    ELSE IF IsLineTerminator(str[n]) THEN <<<<>>, <<>>>>
    ELSE IF ExtMatchesAfter(str, n) THEN <<SubSeq(str, 1, n), SubSeq(str, n + 1, Len(str))>>
    ELSE IF n = Len(str) THEN <<str, <<>>>>
    ELSE basename_and_extname_regex_exec(str, n + 1)

parseBasenameAndExtname_FromFilename(filename) ==
    basename_and_extname_regex_exec(filename, 1)

\* the FilepathInfo record, from its parts
FilepathInfo(p, dirpath, dirname, filename, names) ==
    [kind |-> "info", path |-> p, dirpath |-> dirpath, dirname |-> dirname,
     filename |-> filename, basename |-> names[1], extname |-> names[2]]

\* parseFilepathInfo once dirpath is cut off: dirname and the two names of the filename
FilepathInfoIn(p, filename, dirpath) ==
    FilepathInfo(p, dirpath, parseNormalizedUnixFilename(pop(dirpath)), filename,
                 parseBasenameAndExtname_FromFilename(filename))

\* parseFilepathInfo once the filename is found:
\* dirpath = filename_length > 0 ? path.slice(0, - filename_length) : path
FilepathInfoOf(p, filename) ==
    FilepathInfoIn(p, filename,
        IF Len(filename) > 0 THEN SubSeq(p, 1, Len(p) - Len(filename)) ELSE p)

\* parseFilepathInfo on the normalized path
FilepathInfoOn(p) == FilepathInfoOf(p, parseNormalizedUnixFilename(p))

parseFilepathInfo(file_path) == FilepathInfoOn(normalizePath(file_path))

-----------------------------------------------------------------------------
(* Inputs                                                                  *)

PathAlphabet == {"/", "\\", ".", "a"}

\* doc-test inputs of normalizeUnixPath and normalizePath
DocPath1 == <<".", ".", "/", "h", "e", "l", "l", "o", "w", "o", "r", "l", "d", "/", ".", "/",
              "t", "e", "m", "p", "/", ".", ".", "/", ".", "/", ".", "/", "/",
              "h", "e", "l", "l", "o", ".", "t", "x", "t">>
DocPath1Out == <<".", ".", "/", "h", "e", "l", "l", "o", "w", "o", "r", "l", "d", "/", "/",
                 "h", "e", "l", "l", "o", ".", "t", "x", "t">>

DocPaths == {DocPath1}

\* k times "../" followed by a tail without dot segments
RECURSIVE UpPath(_, _)
UpPath(k, tail) == IF k = 0 THEN tail ELSE <<".", ".", "/">> \o UpPath(k - 1, tail)

UpTails == {<<"a">>, <<"a", "/", "a">>, <<"/", "a">>, <<"a", "/">>, <<".", "a">>, <<".", ".", ".">>}

UpwardPaths == {UpPath(k, t) : k \in 0..MaxUp, t \in UpTails}

NormPaths == StringsUpTo(PathAlphabet, MaxPathLen) \cup DocPaths \cup UpwardPaths

\* the pieces the inputs of getUriScheme are concatenated from
SchemeTokens ==
    { <<"n", "p", "m">>, <<"j", "s", "r">>, <<"d", "a", "t", "a">>, <<"h", "t", "t", "p">>,
      <<"h", "t", "t", "p", "s">>, <<"f", "i", "l", "e">>,
      <<":">>, <<"/">>, <<".">>, <<"a">> }

RECURSIVE TokenStrings(_, _)
TokenStrings(tokens, n) ==
    IF n = 0 THEN {<<>>}
    ELSE LET shorter == TokenStrings(tokens, n - 1)
         IN  shorter \cup {s \o t : s \in shorter, t \in tokens}

SchemePaths == TokenStrings(SchemeTokens, MaxSchemeTokens)

\* doc-test inputs of parsePackageUrl
DocPkg1 == <<"j", "s", "r", ":", "@", "s", "c", "o", "p", "e", "/", "p", "a", "c", "k", "a", "g", "e", "@", "v", "e", "r", "s", "i", "o", "n", "/", "p", "a", "t", "h", "n", "a", "m", "e", "/", "f", "i", "l", "e", ".", "t", "s">>
DocPkg2 == <<"j", "s", "r", ":", "p", "a", "c", "k", "a", "g", "e", "@", "v", "e", "r", "s", "i", "o", "n", "/", "p", "a", "t", "h", "n", "a", "m", "e", "/">>
DocPkg3 == <<"n", "p", "m", ":", "/", "/", "/", "@", "s", "c", "o", "p", "e", "/", "p", "a", "c", "k", "a", "g", "e", "@", "v", "e", "r", "s", "i", "o", "n">>
DocPkg4 == <<"n", "p", "m", ":", "p", "a", "c", "k", "a", "g", "e">>
DocPkgBad1 == <<"n", "p", "m", ":", "@", "s", "c", "o", "p", "e", "/">>
DocPkgBad2 == <<"n", "p", "m", ":", "@", "s", "c", "o", "p", "e", "/", "/", "p", "a", "c", "k", "a", "g", "e">>
DocPkgBad3 == <<"p", "n", "p", "m", ":", "@", "s", "c", "o", "p", "e", "/", "p", "a", "c", "k", "a", "g", "e", "@", "v", "e", "r", "s", "i", "o", "n">>

DocPkgs == {DocPkg1, DocPkg2, DocPkg3, DocPkg4, DocPkgBad1, DocPkgBad2, DocPkgBad3}

PkgProtocols == {NPM, JSR, <<"p", "n", "p", "m", ":">>, <<"n", "p", "m">>}
PkgAlphabet == {"/", "@", "a", " ", "\n"}

\* a protocol (or a near miss of one) followed by any short string
ShortPkgs == {p \o b : p \in PkgProtocols, b \in StringsUpTo(PkgAlphabet, MaxPkgBody)}

RECURSIVE Slashes(_)
Slashes(k) == IF k = 0 THEN <<>> ELSE <<sep>> \o Slashes(k - 1)

\* the specifiers of the documented shape: protocol, slashes, @scope/, pkg, @version, pathname
ShapedPkgs ==
    {p \o Slashes(k) \o s \o n \o v \o t :
        p \in {NPM, JSR}, k \in 0..MaxPkgSlashes,
        s \in {<<>>, <<"@", "s", "/">>, <<"@", "s", "@", "t", "/">>},
        n \in {<<"p">>, <<"p", ".", "q">>},
        v \in {<<>>, <<"@", "1">>, <<"@", "1", "@", "2">>},
        t \in {<<>>, <<"/">>, <<"/", "x">>, <<"/", "/", "x", "/">>, <<"/", "x", " ", "y">>,
               <<"/", ".", ".", "/", "x">>, <<"/", "@", "x">>}}

PkgInputs == ShortPkgs \cup ShapedPkgs \cup DocPkgs

\* doc-test inputs of resolveAsUrl (in lower case, without digits)
DocRel1 == <<".", "/", "t", "o", "/", "f", "i", "l", "e", ".", "t", "x", "t">>
DocRel2 == <<".", ".", "/", "t", "o", "/", "f", "i", "l", "e", ".", "t", "x", "t">>
DocBaseData == <<"d", "a", "t", "a", ":", "t", "e", "x", "t", "/", "p", "l", "a", "i", "n", ";", "c", "h", "a", "r", "s", "e", "t", "=", "u", "t", "f", ";", "b", "a", "s", "e", ",", "a", "g", "v", "s", "b", "g", "=">>
DocBaseRel == <<".", "/", "p", "a", "t", "h", "/">>
DocBaseHttp == <<"h", "t", "t", "p", ":", "/", "/", "c", "d", "n", ".", "g", "o", "o", "g", "l", "e", ".", "c", "o", "m", "/", "p", "a", "t", "h", "/">>
DocBaseNpm == <<"n", "p", "m", ":", "r", "e", "a", "c", "t">>
DocBaseJsr == <<"j", "s", "r", ":", "/", "/", "/", "@", "s", "c", "o", "p", "e", "/", "m", "y", "-", "l", "i", "b", "/", "/", "a", "s", "s", "e", "t", "s">>

ResolveTokens == {<<".", "/">>, <<".", ".", "/">>, <<"\\">>, <<"a">>, <<"/">>, NPM, <<"d", "a", "t", "a", ":">>}

ResolvePaths ==
    TokenStrings(ResolveTokens, MaxResolvePathTokens)
    \cup {DocRel1, DocRel2, <<"h", "t", "t", "p", ":", "/", "/", "a">>,
          <<"h", "t", "t", "p", "s", ":", "/", "/", "a", "/", ".", ".", "/", "b">>,
          <<"f", "i", "l", "e", ":", "/", "/", "/", "a">>}

\* package bases: a host, then a pathname with single, doubled and tripled
\* slashes, dot segments, and an "@" where a host would stand
PackageBases ==
    {p \o h \o t :
        p \in {NPM, JSR},
        h \in {<<"r", "e", "a", "c", "t">>, <<"@", "s", "/", "p", "@", "v">>},
        t \in {<<"/">>, <<"/", "b">>, <<"/", "b", "/">>, <<"/", "b", "/", ".", ".", "/", "c">>,
               <<"/", "b", "/", "/", "c">>, <<"/", "/", "b">>, <<"/", "/", "b", "/", "c">>,
               <<"/", "/", "/", "b", "/">>, <<"/", "/">>, <<"/", "/", "@", "/">>,
               <<"/", ".", ".", "/", "b">>, <<"/", ".", ".", "/", ".", ".", "/", "q">>}}

ResolveBases ==
    TokenStrings(ResolveTokens, MaxResolveBaseTokens)
    \cup PackageBases
    \cup {NoBase, DocBaseData, DocBaseRel, DocBaseHttp, DocBaseNpm, DocBaseJsr,
          <<"f", "i", "l", "e", ":", "/", "/", "/", "a", "/">>,
          <<"n", "p", "m", ":", "@", "s", "/">>,
          <<"n", "p", "m", ":", ".", "/", "/">>,
          <<"j", "s", "r", ":", ".", "/", "/", "b", "/">>}

\* the separator of the paths in an enumerated list; no path holds it
ListSep == ","

\* the list of paths that the string str spells, its paths separated by ListSep
RECURSIVE PathsOfAcc(_, _, _)
PathsOfAcc(str, i, cur) ==
    IF i > Len(str) THEN <<cur>>
    ELSE IF str[i] = ListSep THEN <<cur>> \o PathsOfAcc(str, i + 1, <<>>)
    ELSE PathsOfAcc(str, i + 1, Append(cur, str[i]))

\* every non-empty list of strings over the alphabet that takes at most n
\* characters to spell
ListsUpTo(alphabet, n) ==
    {PathsOfAcc(str, 1, <<>>) : str \in StringsUpTo(alphabet \cup {ListSep}, n)}

\* doc-test inputs of commonNormalizedUnixPath, with shorter names
DocUnixLists == {
    <<<<"c", "/", "h", "/", "w", "/", "u">>, <<"c", "/", "h", "/", "w", "/">>, <<"c", "/", "h", "/", "w">>>>,
    <<<<"c", "/", "h", "/", "w", "/", "u">>, <<"c", "/", "h", "/", "w", "/">>, <<"c", "/", "h", "/", "w", "/">>>>,
    <<<<"/", "c", "/", "h", "/", "a", "/">>, <<"/", "c", "/", "h", "/", "b">>, <<"/", "c", "/", "h", "/">>>>,
    <<<<".", "/", ".", ".", "/", "h", "/", "a", "/">>, <<".", "/", ".", ".", "/", "h", "/", "b">>, <<".", "/", ".", ".", "/", "h", ".", "c">>>>,
    <<<<"a">>>>,
    <<<<".", "/", "a", "/", "b">>, <<".", "/", "a", "/", "c", "/">>>>,
    <<<<".", ".", "/", "a", "/", "b">>, <<".", "/", "a", "/", "b">>>> }

\* lists of normalized unix paths, as commonNormalizedUnixPath requires
UnixPathLists == ListsUpTo({"a", "b", sep}, MaxListChars) \cup DocUnixLists

\* doc-test inputs of commonPath, commonPathTransform and commonPathReplace,
\* with shorter names
DocPathLists == {
    <<<<"c", ":", "/", "h", "\\", "w", "/", "u">>, <<"c", ":", "/", "h", "/", "w">>, <<"c", ":", "/", "h", "/", "w", "/", ".", "/", ".", "\\", "u", "/">>>>,
    <<<<".", "/", ".", ".", "/", "h", "/", ".", "/", ".", "\\", ".", "\\", ".", ".", "/", "a", "\\", "b">>, <<".", "/", ".", ".", "/", "h", "\\", ".", "\\", ".", ".", "\\", "b", "\\">>, <<".", "/", ".", ".", "/", "h", ".", "c">>>>,
    <<<<"/", "a", "/", "/", "b", "/", "c">>, <<"/", "a", "/", "/", "b", "/", "d", "/">>>>,
    <<<<"/", "a", "/", "/">>, <<"/", "a", "/", "/", "/", "b">>>>,
    <<<<"b", "/">>, <<"b", "/", "a", "a">>>> }

PathLists == ListsUpTo(PathAlphabet, MaxListChars) \cup DocPathLists

\* the new_common_dir arguments of commonPathReplace
NewCommonDirs == {<<>>, <<"b", "/">>, <<"b", "\\">>, <<".", "/", "b">>}

\* the segments given to joinSlash
SegmentLists ==
    ListsUpTo({"a", ".", sep}, MaxListChars)
    \cup {<<<<".", "/", "/", "/", ".", ".", "/", "a">>, <<"b">>, <<"c", ".", "d">>>>,
          <<<<"/", "/", "a", "/", "/">>, <<"/", "/", "b", "/", "/">>, <<"/", "/", "c">>>>,
          <<<<"/">>, <<"a">>, <<"b", "/">>>>,
          <<<<>>, <<>>, <<"/">>>>,
          <<<<>>, <<"a">>>>,
          <<<<"a", "/">>, <<"/", "b">>>>}

\* the paths given to parseFilepathInfo
FileAlphabet == {"/", ".", "a", "\n"}
FilePaths ==
    StringsUpTo(FileAlphabet, MaxPathLen)
    \cup {<<"/", "h", "/", "u", "/", "h", "e", "l", "l", "o", ".", "c">>,
          <<"/", "/", "h", "/", "h", "e", "l", "l", "o", ".", "d", ".", "t", "s">>,
          <<".", "b", "a", "s", "h", "r", "c">>,
          <<"h", "t", "t", "p", "s", ":", "/", "/", "x", "/", "a", "/">>,
          <<"a", "\\", "b", ".", "c">>,
          <<"a", "/", "b", "\n", "c", ".", "d">>,
          <<"x", "/", ".", "b", ".", "c">>}

-----------------------------------------------------------------------------
(* The regex constants of pathman as objects: their flags and lastIndex    *)

Regexes ==
    {"windows_directory_slash_regex", "leading_slashes_regex", "trailing_slashes_regex",
     "leading_slashes_and_dot_slashes_regex", "filename_regex",
     "basename_and_extname_regex", "package_regex"}

\* a mutant of RegexFlags: package_regex is global as well
RegexFlagsPackageGlobal(regex) ==
    IF regex \in {"windows_directory_slash_regex", "package_regex"} THEN {"g"} ELSE {}

\* the flags each regex literal is written with
RegexFlags(regex) == IF regex = "windows_directory_slash_regex" THEN {"g"} ELSE {}

\* exec() reads and writes lastIndex only for a global or sticky regex
UsesLastIndex(regex) == RegexFlags(regex) \cap {"g", "y"} # {}

\* the index at which `regex.exec(str)` starts to look for a match
ExecStart(li, regex) == IF UsesLastIndex(regex) THEN li[regex] ELSE 0

\* lastIndex after each of regexes ran exec() once, or replace() when not
\* global: a regex that uses lastIndex is left with the end of its match
\* (0 when it found none), any other regex with what it had
AfterExecs(li, regexes, match_end) ==
    [regex \in Regexes |->
        IF regex \in regexes /\ UsesLastIndex(regex) THEN match_end ELSE li[regex]]

\* lastIndex after `str.replaceAll(regex, ...)` of a global regex: it is set
\* to 0 first, and the exec() that finds no further match sets it to 0 again
AfterReplaceAll(li, regex) == [li EXCEPT ![regex] = 0]

\* `package_regex.exec(str)` from the index from: "^" matches at index 0 only
PackageExecFrom(str, from) ==
    IF from = 0 THEN package_regex_exec(str) ELSE WithProtocol(NoMatch, Undefined)

-----------------------------------------------------------------------------
(* The state machine                                                       *)


Init ==
    /\ fn = "none"
    /\ path = <<>>
    /\ base = NoBase
    /\ pc = "idle"
    /\ segments = <<>>
    /\ output_segments = <<>>
    /\ ret = NoValue
    /\ paths = <<>>
    /\ map_fn = "none"
    /\ new_common_dir = <<>>
    /\ path_infos = <<>>
    /\ calls = <<>>
    /\ mapped = <<>>
    /\ stack = <<>>
    /\ bytes = <<>>
    /\ bytes_at_call = <<>>
    /\ bytesize = 0
    /\ slice_length = 0
    /\ skip_length = 0
    /\ start = 0
    /\ end = 0
    /\ offset = 0
    /\ out_arr = <<>>
    /\ scheme_mapping = uri_protocol_and_scheme_mapping
    /\ lastIndex = [regex \in Regexes |-> 0]

\* normalizeUnixPath(p) is entered: the path is split, the stack is seeded
CallNormalizeUnixPath ==
    /\ pc = "idle"
    /\ \E p \in NormPaths :
        /\ fn' = "normalizeUnixPath"
        /\ path' = p
        /\ segments' = split(p)
    /\ base' = NoBase
    /\ output_segments' = InitialOutputSegments
    /\ pc' = "loop"
    /\ ret' = NoValue
    /\ UNCHANGED list_vars
    /\ UNCHANGED stack
    /\ UNCHANGED buffer_vars
    /\ UNCHANGED module_vars

\* normalizePath(p) is entered: it calls normalizeUnixPath(pathToUnixPath(p))
CallNormalizePath ==
    /\ pc = "idle"
    /\ \E p \in NormPaths :
        /\ fn' = "normalizePath"
        /\ path' = p
        /\ segments' = split(pathToUnixPath(p))
    /\ base' = NoBase
    /\ output_segments' = InitialOutputSegments
    /\ pc' = "loop"
    /\ ret' = NoValue
    /\ UNCHANGED list_vars
    /\ UNCHANGED stack
    /\ UNCHANGED buffer_vars
    /\ lastIndex' = AfterReplaceAll(lastIndex, "windows_directory_slash_regex")
    /\ UNCHANGED scheme_mapping

\* one iteration of the for-loop
NormalizeIterate ==
    /\ pc = "loop"
    /\ segments # <<>>
    /\ output_segments' = NormalizeSegment(output_segments, Head(segments))
    /\ segments' = Tail(segments)
    /\ UNCHANGED <<fn, path, base, pc, ret>>
    /\ UNCHANGED list_vars
    /\ UNCHANGED stack
    /\ UNCHANGED buffer_vars
    /\ UNCHANGED module_vars

\* the loop is over: shift, join, return
NormalizeReturn ==
    /\ pc = "loop"
    /\ segments = <<>>
    /\ ret' = StringValue(NormalizeFinish(output_segments))
    /\ output_segments' = shift(output_segments)
    /\ pc' = "done"
    /\ UNCHANGED <<fn, path, base, segments>>
    /\ UNCHANGED list_vars
    /\ UNCHANGED stack
    /\ UNCHANGED buffer_vars
    /\ UNCHANGED module_vars

\* getUriScheme(p) runs to its return
CallGetUriScheme ==
    /\ pc = "idle"
    /\ \E p \in SchemePaths :
        /\ fn' = "getUriScheme"
        /\ path' = p
        /\ ret' = SchemeValue(getUriScheme(p))
    /\ pc' = "done"
    /\ UNCHANGED <<base, segments, output_segments>>
    /\ UNCHANGED list_vars
    /\ UNCHANGED stack
    /\ UNCHANGED buffer_vars
    /\ UNCHANGED module_vars

\* parsePackageUrl(url_href) runs to its return or its throw
CallParsePackageUrl ==
    /\ pc = "idle"
    /\ \E p \in PkgInputs :
        /\ fn' = "parsePackageUrl"
        /\ path' = p
        /\ ret' = IF ExecStart(lastIndex, "package_regex") = 0
                  THEN parsePackageUrl(p)
                  ELSE PackageFromGroups(PackageExecFrom(p, ExecStart(lastIndex, "package_regex")))
    /\ pc' = "done"
    /\ UNCHANGED <<base, segments, output_segments>>
    /\ UNCHANGED list_vars
    /\ UNCHANGED stack
    /\ UNCHANGED buffer_vars
    /\ lastIndex' = AfterExecs(lastIndex, {"package_regex"},
                               IF PackageExecFrom(path', ExecStart(lastIndex, "package_regex")).ok
                               THEN Len(path') ELSE 0)
    /\ UNCHANGED scheme_mapping

\* resolveAsUrl(p, b) is called
CallResolveAsUrl ==
    /\ pc = "idle"
    /\ \E p \in ResolvePaths, b \in ResolveBases :
        /\ fn' = "resolveAsUrl"
        /\ path' = p
        /\ base' = b
        /\ stack' = <<ResolveFrame(p, b)>>
    /\ pc' = "resolve"
    /\ UNCHANGED <<segments, output_segments, ret>>
    /\ UNCHANGED list_vars
    /\ UNCHANGED buffer_vars
    /\ UNCHANGED module_vars

\* `base_url = resolveAsUrl(base)`: the innermost call of resolveAsUrl got a
\* base string of a supported scheme and calls resolveAsUrl on it
ResolveBaseString ==
    /\ pc = "resolve"
    /\ NeedsBaseUrl(stack[Len(stack)])
    /\ stack' = Append(stack, BaseCall(stack[Len(stack)]))
    /\ UNCHANGED <<fn, path, base, pc, segments, output_segments, ret>>
    /\ UNCHANGED list_vars
    /\ UNCHANGED buffer_vars
    /\ UNCHANGED module_vars

\* the innermost call of resolveAsUrl leaves the stack of calls
ResolveUnwind ==
    /\ pc = "resolve"
    /\ ~ NeedsBaseUrl(stack[Len(stack)])
    /\ stack' = AfterReturn(stack)

\* the innermost call of resolveAsUrl returns or throws: ret is what it
\* hands to the call below as its base_url, or to the caller from the
\* outermost call; an error goes through the calls one call at a time
ResolveReturn ==
    /\ ResolveUnwind
    /\ ret' = FrameResult(stack[Len(stack)], ret)
    /\ pc' = IF Len(stack) = 1 THEN "done" ELSE "resolve"
    /\ UNCHANGED <<fn, path, base, segments, output_segments>>
    /\ UNCHANGED list_vars
    /\ UNCHANGED buffer_vars
    /\ lastIndex' = AfterExecs(AfterReplaceAll(lastIndex, "windows_directory_slash_regex"),
                               {"package_regex"}, Len(stack[Len(stack)].path))
    /\ UNCHANGED scheme_mapping

\* commonNormalizedUnixPath(paths) runs to its return
CallCommonNormalizedUnixPath ==
    /\ pc = "idle"
    /\ \E ps \in UnixPathLists :
        /\ fn' = "commonNormalizedUnixPath"
        /\ paths' = ps
        /\ ret' = StringValue(commonNormalizedUnixPath(ps))
    /\ pc' = "done"
    /\ UNCHANGED <<path, base, segments, output_segments>>
    /\ UNCHANGED <<map_fn, new_common_dir, path_infos, calls, mapped>>
    /\ UNCHANGED stack
    /\ UNCHANGED buffer_vars
    /\ UNCHANGED module_vars

\* commonPath(paths) runs to its return
CallCommonPath ==
    /\ pc = "idle"
    /\ \E ps \in PathLists :
        /\ fn' = "commonPath"
        /\ paths' = ps
        /\ ret' = StringValue(commonPath(ps))
    /\ pc' = "done"
    /\ UNCHANGED <<path, base, segments, output_segments>>
    /\ UNCHANGED <<map_fn, new_common_dir, path_infos, calls, mapped>>
    /\ UNCHANGED stack
    /\ UNCHANGED buffer_vars
    /\ lastIndex' = AfterReplaceAll(lastIndex, "windows_directory_slash_regex")
    /\ UNCHANGED scheme_mapping

\* commonPathTransform(paths, map_fn) is called: path_infos is built, and
\* `path_infos.map(map_fn)` begins
CallCommonPathTransform ==
    /\ pc = "idle"
    /\ \E ps \in PathLists, f \in MapFns :
        /\ fn' = "commonPathTransform"
        /\ paths' = ps
        /\ map_fn' = f
        /\ path_infos' = PathInfos(ps)
    /\ calls' = <<>>
    /\ mapped' = <<>>
    /\ pc' = "map"
    /\ UNCHANGED <<path, base, segments, output_segments, ret, new_common_dir>>
    /\ UNCHANGED stack
    /\ UNCHANGED buffer_vars
    /\ lastIndex' = AfterReplaceAll(lastIndex, "windows_directory_slash_regex")
    /\ UNCHANGED scheme_mapping

\* commonPathReplace(paths, new_common_dir) is called: new_common_dir is
\* reassigned, and commonPathTransform is called with the closure over it
CallCommonPathReplace ==
    /\ pc = "idle"
    /\ \E ps \in PathLists, d \in NewCommonDirs :
        /\ fn' = "commonPathReplace"
        /\ paths' = ps
        /\ base' = d
        /\ new_common_dir' = ensureEndSlash(d)
        /\ path_infos' = PathInfos(ps)
    /\ map_fn' = "replace"
    /\ calls' = <<>>
    /\ mapped' = <<>>
    /\ pc' = "map"
    /\ UNCHANGED <<path, segments, output_segments, ret>>
    /\ UNCHANGED stack
    /\ UNCHANGED buffer_vars
    /\ lastIndex' = AfterReplaceAll(lastIndex, "windows_directory_slash_regex")
    /\ UNCHANGED scheme_mapping

\* `path_infos.map(map_fn)` calls map_fn on its next element
MapStep ==
    /\ pc = "map"
    /\ Len(mapped) < Len(path_infos)
    /\ calls' = Append(calls, <<path_infos[Len(mapped) + 1], Len(mapped)>>)
    /\ mapped' = Append(mapped,
           ApplyMapFn(map_fn, path_infos[Len(mapped) + 1], Len(mapped), new_common_dir))
    /\ UNCHANGED <<fn, path, base, pc, segments, output_segments, ret>>
    /\ UNCHANGED <<paths, map_fn, new_common_dir, path_infos>>
    /\ UNCHANGED stack
    /\ UNCHANGED buffer_vars
    /\ UNCHANGED module_vars

\* `path_infos.map(map_fn)` has called map_fn on every element: its array is
\* returned
MapReturn ==
    /\ pc = "map"
    /\ Len(mapped) = Len(path_infos)
    /\ ret' = ListValue(mapped)
    /\ pc' = "done"
    /\ UNCHANGED <<fn, path, base, segments, output_segments>>
    /\ UNCHANGED list_vars
    /\ UNCHANGED stack
    /\ UNCHANGED buffer_vars
    /\ UNCHANGED module_vars

\* joinSlash(...segments) runs to its return
CallJoinSlash ==
    /\ pc = "idle"
    /\ \E segs \in SegmentLists :
        /\ fn' = "joinSlash"
        /\ paths' = segs
        /\ ret' = StringValue(joinSlash(segs))
    /\ pc' = "done"
    /\ UNCHANGED <<path, base, segments, output_segments>>
    /\ UNCHANGED <<map_fn, new_common_dir, path_infos, calls, mapped>>
    /\ UNCHANGED stack
    /\ UNCHANGED buffer_vars
    /\ lastIndex' = AfterExecs(lastIndex,
                               {"leading_slashes_and_dot_slashes_regex",
                                "trailing_slashes_regex", "leading_slashes_regex"}, 0)
    /\ UNCHANGED scheme_mapping

\* parseFilepathInfo(file_path) runs to its return
CallParseFilepathInfo ==
    /\ pc = "idle"
    /\ \E p \in FilePaths :
        /\ fn' = "parseFilepathInfo"
        /\ path' = p
        /\ ret' = parseFilepathInfo(p)
    /\ pc' = "done"
    /\ UNCHANGED <<base, segments, output_segments>>
    /\ UNCHANGED list_vars
    /\ UNCHANGED stack
    /\ UNCHANGED buffer_vars
    /\ lastIndex' = AfterExecs(AfterReplaceAll(lastIndex, "windows_directory_slash_regex"),
                               {"filename_regex", "leading_slashes_regex",
                                "basename_and_extname_regex"}, Len(path'))
    /\ UNCHANGED scheme_mapping

\* the caller has taken the result; nothing of the call is kept
Forget ==
    /\ pc = "done"
    /\ fn' = "none"
    /\ path' = <<>>
    /\ base' = NoBase
    /\ pc' = "idle"
    /\ segments' = <<>>
    /\ output_segments' = <<>>
    /\ ret' = NoValue
    /\ paths' = <<>>
    /\ map_fn' = "none"
    /\ new_common_dir' = <<>>
    /\ path_infos' = <<>>
    /\ calls' = <<>>
    /\ mapped' = <<>>
    /\ UNCHANGED stack
    /\ bytes' = <<>>
    /\ bytes_at_call' = <<>>
    /\ bytesize' = 0
    /\ slice_length' = 0
    /\ skip_length' = 0
    /\ start' = 0
    /\ end' = 0
    /\ offset' = 0
    /\ out_arr' = <<>>
    /\ UNCHANGED module_vars

Next ==
    \/ Forget
    \/ CallNormalizeUnixPath
    \/ CallNormalizePath
    \/ NormalizeIterate
    \/ NormalizeReturn
    \/ CallGetUriScheme
    \/ CallParsePackageUrl
    \/ CallResolveAsUrl
    \/ ResolveBaseString
    \/ ResolveReturn
    \/ CallCommonNormalizedUnixPath
    \/ CallCommonPath
    \/ CallCommonPathTransform
    \/ CallCommonPathReplace
    \/ MapStep
    \/ MapReturn
    \/ CallJoinSlash
    \/ CallParseFilepathInfo

Spec == Init /\ [][Next]_vars

\* one call of resolveAsUrl after the other
ResolveNext == CallResolveAsUrl \/ ResolveBaseString \/ ResolveReturn \/ Forget

\* javascript runs a call to its end: a call of resolveAsUrl that can go on
\* does go on. Within ResolveNext the steps that take the innermost call off
\* the stack are the steps of ResolveReturn, and both are enabled in the
\* same states
LiveSpec ==
    Init /\ [][ResolveNext]_vars /\ WF_stack(ResolveBaseString) /\ WF_stack(ResolveUnwind)

-----------------------------------------------------------------------------
(* typedbuffer: swapEndianess and swapEndianessFast                        *)

\* A Uint8Array is the sequence of its bytes; the index i of the code is
\* the index i + 1 of the sequence.

\* the byte that a Uint8Array stores for `u8[i]`: outside of the array
\* u8[i] is undefined, which is stored as 0
ByteAt(u8, i) == IF i >= 0 /\ i < Len(u8) THEN u8[i + 1] ELSE 0

\* `u8[i] = byte`: no effect outside of the array
SetByte(u8, i, byte) ==
    IF i >= 0 /\ i < Len(u8) THEN [u8 EXCEPT ![i + 1] = byte] ELSE u8

\* `new Uint8Array(len)`
ZeroBytes(len) == [k \in 1..len |-> 0]

\* where `subarray(from, to)` ends: `to` is clamped to the length
SubarrayEnd(u8, to) == IF to < Len(u8) THEN to ELSE Len(u8)

\* u8 after `u8.subarray(from, to).reverse()`, for 0 <= from <= to: the
\* subarray is a view, so the reversal is seen in u8
ReverseSubarray(u8, from, to) ==
    [k \in 1..Len(u8) |->
        IF k - 1 >= from /\ k - 1 < SubarrayEnd(u8, to)
        THEN u8[from + SubarrayEnd(u8, to) - (k - 1)]
        ELSE u8[k]]

\* a mutant of swapEndianessFor: the groups are taken one byte too long
RECURSIVE swapEndianessForLongGroups(_, _, _)
swapEndianessForLongGroups(u8, bs, i) ==
    IF i < Len(u8)
    THEN swapEndianessForLongGroups(ReverseSubarray(u8, i, i + bs + 1), bs, i + bs)
    ELSE u8

\* the for-loop of swapEndianess from index i on
RECURSIVE swapEndianessFor(_, _, _)
swapEndianessFor(u8, bs, i) ==
    IF i < Len(u8)
    THEN swapEndianessFor(ReverseSubarray(u8, i, i + bs), bs, i + bs)
    ELSE u8

\* the bytes of buf after swapEndianess(buf, bs), which returns buf itself
swapEndianess(u8, bs) == swapEndianessFor(u8, bs, 0)

\* `a = bs - 1 - offset * 2`
ReadShift(bs, off) == bs - 1 - off * 2

\* the inner for-loop of swapEndianessFast from index i on
RECURSIVE swapEndianessFastInner(_, _, _, _, _)
swapEndianessFastInner(swapped_buf, u8, bs, off, i) ==
    IF i < Len(u8) + off
    THEN swapEndianessFastInner(
            SetByte(swapped_buf, i, ByteAt(u8, i + ReadShift(bs, off))),
            u8, bs, off, i + bs)
    ELSE swapped_buf

\* the outer for-loop of swapEndianessFast from offset off on
RECURSIVE swapEndianessFastOuter(_, _, _, _)
swapEndianessFastOuter(swapped_buf, u8, bs, off) ==
    IF off < bs
    THEN swapEndianessFastOuter(
            swapEndianessFastInner(swapped_buf, u8, bs, off, off), u8, bs, off + 1)
    ELSE swapped_buf

\* the buffer that swapEndianessFast(buf, bs) returns; buf is only read
swapEndianessFast(u8, bs) == swapEndianessFastOuter(ZeroBytes(Len(u8)), u8, bs, 0)

\* a byte buffer as a returned value; same_as_buf: it is the array that was passed
BytesValue(u8, same) == [kind |-> "bytes", val |-> u8, same_as_buf |-> same]

\* the byte buffers of up to n bytes
RECURSIVE BuffersUpTo(_)
BuffersUpTo(n) ==
    IF n = 0 THEN {<<>>}
    ELSE BuffersUpTo(n - 1)
         \cup {Append(u8, byte) : u8 \in {b \in BuffersUpTo(n - 1) : Len(b) = n - 1},
                                   byte \in 0..MaxByte}

Buffers == BuffersUpTo(MaxBufLen)

ByteSizes == 1..MaxByteSize

\* swapEndianess(buf, bs) runs to its return
CallSwapEndianess ==
    /\ pc = "idle"
    /\ \E u8 \in Buffers, bs \in ByteSizes :
        /\ fn' = "swapEndianess"
        /\ bytes_at_call' = u8
        /\ bytesize' = bs
        /\ bytes' = swapEndianess(u8, bs)
    /\ ret' = BytesValue(bytes', TRUE)
    /\ pc' = "done"
    /\ UNCHANGED <<slice_length, skip_length, start, end, offset, out_arr>>
    /\ UNCHANGED path_vars
    /\ UNCHANGED list_vars
    /\ UNCHANGED module_vars

\* swapEndianessFast(buf, bs) runs to its return
CallSwapEndianessFast ==
    /\ pc = "idle"
    /\ \E u8 \in Buffers, bs \in ByteSizes :
        /\ fn' = "swapEndianessFast"
        /\ bytes_at_call' = u8
        /\ bytesize' = bs
        /\ bytes' = u8
        /\ ret' = BytesValue(swapEndianessFast(u8, bs), FALSE)
    /\ pc' = "done"
    /\ UNCHANGED <<slice_length, skip_length, start, end, offset, out_arr>>
    /\ UNCHANGED path_vars
    /\ UNCHANGED list_vars
    /\ UNCHANGED module_vars

-----------------------------------------------------------------------------
(* typedbuffer: resolveRange, sliceSkip and sliceSkipTypedSubarray         *)

\* an optional number argument: <<>> when it is undefined or left out,
\* <<n>> when it is the number n
None == <<>>
Some(n) == <<n>>

\* `opt ?? dflt`, and a default parameter value
Default(opt, dflt) == IF opt = None THEN dflt ELSE opt[1]

\* `index += index >= 0 ? 0 : length`
FromEnd(index, length) == IF index >= 0 THEN index ELSE index + length

\* resolveRange(st, en, length) for a number length and no offset:
\* the start, the end and the length of the range
resolveRange(st, en, length) ==
    <<FromEnd(Default(st, 0), length),
      FromEnd(Default(en, length), length),
      IF FromEnd(Default(en, length), length) - FromEnd(Default(st, 0), length) >= 0
      THEN FromEnd(Default(en, length), length) - FromEnd(Default(st, 0), length)
      ELSE 0>>

\* the index that slice() and subarray() make of the argument index: counted
\* from the end when negative, and clamped to the array
RelativeIndex(index, length) ==
    IF index < 0 THEN (IF length + index < 0 THEN 0 ELSE length + index)
    ELSE IF index > length THEN length ELSE index

\* `array.slice(from, to)` (a copy) or `array.subarray(from, to)` (a view)
Chunk(array, from, to, is_view) ==
    [val |-> SubSeq(array, RelativeIndex(from, Len(array)) + 1, RelativeIndex(to, Len(array))),
     view |-> is_view]

\* a mutant of NextOffset: the skipped elements are not jumped over
NextOffsetNoSkip(off, slice_len, skip_len) == off + slice_len

\* `offset += slice_length + skip_length`
NextOffset(off, slice_len, skip_len) == off + slice_len + skip_len

\* the chunks as a returned value
ChunksValue(chunks) == [kind |-> "chunks", val |-> chunks]

\* the array of n elements that is sliced: each element is its own index
IndexArray(n) == [k \in 1..n |-> k - 1]

SliceLengths == (-1)..MaxSliceLength

SkipLengths == {None} \cup {Some(n) : n \in (-1)..MaxSkipLength}

RangeArgs == {None} \cup {Some(n) : n \in (-MaxRange)..MaxRange}

\* the most iterations of the loop that are followed: more than a loop that
\* ends can make
MaxChunks == 2 * MaxRange + MaxArrLen

\* f(arr, slice_len, skip_len, st, en) is entered, for f one of sliceSkip and
\* sliceSkipTypedSubarray: the range is resolved, the loop starts at start
EnterSliceSkip(f) ==
    /\ pc = "idle"
    /\ fn' = f
    /\ \E n \in 0..MaxArrLen, slice_len \in SliceLengths, skip_len \in SkipLengths,
          st \in RangeArgs, en \in RangeArgs :
        /\ bytes' = IndexArray(n)
        /\ slice_length' = slice_len
        /\ skip_length' = Default(skip_len, 0)
        /\ start' = resolveRange(st, en, n)[1]
        /\ end' = resolveRange(st, en, n)[2]
    /\ bytes_at_call' = bytes'
    /\ offset' = start'
    /\ out_arr' = <<>>
    /\ pc' = "slice"
    /\ UNCHANGED <<bytesize, ret>>
    /\ UNCHANGED path_vars
    /\ UNCHANGED list_vars
    /\ UNCHANGED module_vars

CallSliceSkip == EnterSliceSkip("sliceSkip")

CallSliceSkipTypedSubarray == EnterSliceSkip("sliceSkipTypedSubarray")

\* one iteration of the for-loop: a chunk is pushed, offset moves on
SliceIterate ==
    /\ pc = "slice"
    /\ offset < end
    /\ Len(out_arr) < MaxChunks
    /\ out_arr' = Append(out_arr, Chunk(bytes, offset, offset + slice_length,
                                        fn = "sliceSkipTypedSubarray"))
    /\ offset' = NextOffset(offset, slice_length, skip_length)
    /\ UNCHANGED <<fn, pc, ret, bytes, bytes_at_call, bytesize, slice_length, skip_length,
                   start, end>>
    /\ UNCHANGED path_vars
    /\ UNCHANGED list_vars
    /\ UNCHANGED module_vars

\* the loop condition fails: out_arr is returned
SliceReturn ==
    /\ pc = "slice"
    /\ ~ (offset < end)
    /\ ret' = ChunksValue(out_arr)
    /\ pc' = "done"
    /\ UNCHANGED <<fn, bytes, bytes_at_call, bytesize, slice_length, skip_length,
                   start, end, offset, out_arr>>
    /\ UNCHANGED path_vars
    /\ UNCHANGED list_vars
    /\ UNCHANGED module_vars

BufferNext ==
    \/ Forget
    \/ CallSwapEndianess
    \/ CallSwapEndianessFast
    \/ CallSliceSkip
    \/ CallSliceSkipTypedSubarray
    \/ SliceIterate
    \/ SliceReturn

\* javascript runs a call to its end: a loop that can go on does go on
BufferSpec ==
    Init /\ [][BufferNext]_vars /\ WF_vars(SliceIterate) /\ WF_vars(SliceReturn)

-----------------------------------------------------------------------------
(* Claims                                                                  *)

Returned(f) == fn = f /\ pc = "done"

\* C1: normalizePath is idempotent: normalizing the string that
\* normalizePath returned gives that same string, for every input.
C1_NormalizePathIdempotent ==
    Returned("normalizePath") => normalizePath(ret.val) = ret.val

\* a normalizePath call whose input had something to reduce has returned
C1_Witness ==
    /\ Returned("normalizePath")
    /\ path = <<"a", "\\", ".", ".", "/">>
    /\ ret.val = <<>>

\* the number of ".." segments at the front of a list of segments
RECURSIVE LeadingDotDots(_)
LeadingDotDots(segs) ==
    IF segs # <<>> /\ Head(segs) = DOTDOT THEN 1 + LeadingDotDots(Tail(segs)) ELSE 0

HasDotSegment(segs) == \E i \in 1..Len(segs) : segs[i] \in {DOT, DOTDOT}

\* k ".." segments followed by segments that are neither "." nor ".."
IsUpwardThenPlain(segs) ==
    ~ HasDotSegment(SubSeq(segs, LeadingDotDots(segs) + 1, Len(segs)))

\* C2: normalizeUnixPath preserves unresolvable upward traversal: on a path
\* of k ".." segments followed by segments that are neither "." nor "..",
\* the output begins with exactly k ".." segments; and while the loop runs
\* the ".." sentinel stays at the bottom of the stack (no input pops it).
C2_UpwardTraversalPreserved ==
    /\ pc = "loop" => output_segments # <<>> /\ output_segments[1] = DOTDOT
    /\ Returned("normalizeUnixPath") /\ IsUpwardThenPlain(split(path))
        => LeadingDotDots(split(ret.val)) = LeadingDotDots(split(path))

\* normalizeUnixPath("../../a/a") has returned "../../a/a"
C2_Witness ==
    /\ Returned("normalizeUnixPath")
    /\ path = UpPath(2, <<"a", "/", "a">>)
    /\ LeadingDotDots(split(ret.val)) = 2

\* C3: normalizeUnixPath pushes empty segments verbatim: a path with no "."
\* and no ".." segment is returned unchanged, and the doc-test path
\* "../helloworld/./temp/../././/hello.txt" gives "../helloworld//hello.txt".
C3_EmptySegmentsKept ==
    /\ Returned("normalizeUnixPath") /\ ~ HasDotSegment(split(path))
        => ret.val = path
    /\ Returned("normalizeUnixPath") /\ path = DocPath1
        => ret.val = DocPath1Out

\* the doc-test call has returned a path that still has its double slash
C3_Witness ==
    /\ Returned("normalizeUnixPath")
    /\ path = DocPath1
    /\ \E i \in 1..Len(split(ret.val)) : split(ret.val)[i] = <<>>

\* C7: getUriScheme is total: every call returns exactly one of the nine
\* values of UriScheme, never an error, and it returns undefined exactly
\* when the input is the empty string.
C7_GetUriSchemeTotal ==
    Returned("getUriScheme") =>
        /\ ret.kind = "scheme"
        /\ ret.val \in UriScheme
        /\ (ret.val = "undefined") <=> (path = <<>>)

\* a call on a string that matches no table entry has returned local
C7_Witness ==
    /\ Returned("getUriScheme")
    /\ path = <<"h", "t", "t", "p", ":", "/", "a">>
    /\ ret.val = "local"

\* the indices of the table entries whose protocol is a prefix of p
MatchingEntries(p) ==
    {i \in 1..Len(uri_protocol_and_scheme_mapping) :
        startsWith(p, uri_protocol_and_scheme_mapping[i][1])}

Min(S) == CHOOSE m \in S : \A n \in S : m <= n

\* C8: for a non-empty path getUriScheme returns the scheme of the first
\* table entry that is a prefix of the path, and local when no entry is.
C8_FirstMatchingPrefix ==
    Returned("getUriScheme") /\ path # <<>> =>
        IF MatchingEntries(path) = {}
        THEN ret.val = "local"
        ELSE ret.val = uri_protocol_and_scheme_mapping[Min(MatchingEntries(path))][2]

\* a call on "../a" has returned the scheme of the table's last entry
C8_Witness ==
    /\ Returned("getUriScheme")
    /\ path = <<".", ".", "/", "a">>
    /\ MatchingEntries(path) = {8}
    /\ ret.val = "relative"

\* the table rotated by r entries
Rotate(table, r) == [k \in 1..Len(table) |-> table[((k - 1 + r) % Len(table)) + 1]]

Reverse(table) == [k \in 1..Len(table) |-> table[Len(table) + 1 - k]]

\* C9: the prefixes of the scheme table are pairwise disjoint: no protocol
\* of the table is a prefix of another, no input starts with two of them,
\* and the scheme returned is the one the reordered tables give (the
\* reversed table and every rotation of it are the reorderings computed).
C9_PrefixesDisjoint ==
    LET table == uri_protocol_and_scheme_mapping
    IN  /\ \A i, j \in 1..Len(table) : i # j => ~ startsWith(table[i][1], table[j][1])
        /\ Returned("getUriScheme") =>
              /\ Cardinality(MatchingEntries(path)) <= 1
              /\ getUriSchemeIn(Reverse(table), path) = ret.val
              /\ \A r \in 1..(Len(table) - 1) :
                    getUriSchemeIn(Rotate(table, r), path) = ret.val

\* a call on "https://a", which shares "http" with another entry, has returned
C9_Witness ==
    /\ Returned("getUriScheme")
    /\ path = <<"h", "t", "t", "p", "s", ":", "/", "/">>
    /\ ret.val = "https"

\* C4: every record parsePackageUrl returns has a pathname that starts with
\* "/" (exactly "/" when the input ends with the package's host, that is,
\* has no subpath), a host that is "@" scope "/" (when there is a scope),
\* pkg, "@" version (when there is a version), an href that is
\* protocol "/" host pathname, and a protocol that is "npm:" or "jsr:".
C4_PackageRecordInvariant ==
    Returned("parsePackageUrl") /\ ret.kind = "package" =>
        /\ ret.pathname # <<>> /\ ret.pathname[1] = "/"
        /\ path = ret.protocol \o Slashes(SlashRun(path, 5)) \o ret.host
               => ret.pathname = <<"/">>
        /\ ret.host = (IF ret.scope # Undefined THEN <<"@">> \o ret.scope \o <<"/">> ELSE <<>>)
                      \o ret.pkg
                      \o (IF ret.version # Undefined THEN <<"@">> \o ret.version ELSE <<>>)
        /\ ret.pkg # <<>> /\ ret.scope # <<>> /\ ret.version # <<>>
        /\ ret.href = ret.protocol \o <<"/">> \o ret.host \o ret.pathname
        /\ ret.protocol \in {NPM, JSR}

\* parsePackageUrl("npm:///@scope/package@version") has returned a record
\* with scope and version and the pathname "/"
C4_Witness ==
    /\ Returned("parsePackageUrl")
    /\ path = DocPkg3
    /\ ret.kind = "package"
    /\ ret.scope # Undefined /\ ret.version # Undefined
    /\ ret.pathname = <<"/">>

\* what is left of a specifier after its protocol, the slashes that follow
\* it and the "@scope/" (the text up to the first "/") if it starts with "@"
AfterScope(p) ==
    LET r == SubSeq(p, 5 + SlashRun(p, 5), Len(p))
        slash == FindEnd(r, 1, {sep})
    IN  IF r # <<>> /\ r[1] = "@" /\ slash <= Len(r)
        THEN SubSeq(r, slash + 1, Len(r))
        ELSE r

\* C5: parsePackageUrl throws, and returns no record, when the input does
\* not start with "npm:" or "jsr:", and when no package name follows the
\* protocol, the slashes and the scope (nothing, or a "/", "@" or white
\* space, stands where the name should); the three doc-test inputs throw.
C5_InvalidSpecifierThrows ==
    Returned("parsePackageUrl") =>
        /\ ~ (startsWith(path, NPM) \/ startsWith(path, JSR)) => ret.kind = "error"
        /\ (startsWith(path, NPM) \/ startsWith(path, JSR))
             /\ (AfterScope(path) = <<>> \/ NotPkgChar(AfterScope(path)[1]))
           => ret.kind = "error"
        /\ path \in {DocPkgBad1, DocPkgBad2, DocPkgBad3} => ret.kind = "error"

\* parsePackageUrl("npm:@scope//package") has thrown
C5_Witness ==
    /\ Returned("parsePackageUrl")
    /\ path = DocPkgBad2
    /\ ret.kind = "error"

C10_RelativeNeedsSupportedBase ==
    Returned("resolveAsUrl")
      /\ (startsWith(path, <<".", "/">>) \/ startsWith(path, <<".", ".", "/">>))
      /\ (base = NoBase \/ getUriScheme(base) \in {"data", "relative"})
    => ret.kind = "error"

\* resolveAsUrl("./to/file.txt") without a base has thrown
C10_Witness ==
    /\ Returned("resolveAsUrl")
    /\ path = DocRel1
    /\ base = NoBase
    /\ ret.kind = "error"

\* the segments segs taken in one after the other, "." skipped and ".."
\* stepping back (never above the root); a final "." or ".." leaves a
\* trailing empty segment
RECURSIVE ResolveDots(_, _)
ResolveDots(out, segs) ==
    IF segs = <<>> THEN out
    ELSE IF Head(segs) = DOTDOT
    THEN ResolveDots(IF Len(segs) = 1 THEN Append(pop(out), <<>>) ELSE pop(out), Tail(segs))
    ELSE IF Head(segs) = DOT
    THEN ResolveDots(IF Len(segs) = 1 THEN Append(out, <<>>) ELSE out, Tail(segs))
    ELSE ResolveDots(Append(out, Head(segs)), Tail(segs))

\* the relative path rel resolved against the absolute path pathname: the
\* last segment of pathname (empty when it ends in "/") is replaced by rel,
\* then "." and ".." are resolved
JoinedPathname(pathname, rel) ==
    <<sep>> \o join(ResolveDots(<<>>, pop(Tail(split(pathname))) \o split(rel)))

\* a resolveAsUrl call on a relative path (once its backslashes are
\* converted) with a base that resolved to a jsr or npm url which
\* parsePackageUrl accepts
RelativeOnPackageBase ==
    /\ Returned("resolveAsUrl")
    /\ getUriScheme(pathToUnixPath(path)) = "relative"
    /\ base # NoBase
    /\ resolveAsUrl(base, NoBase).kind = "url"
    /\ Protocol(resolveAsUrl(base, NoBase)) \in {NPM, JSR}
    /\ parsePackageUrl(Href(resolveAsUrl(base, NoBase))).kind = "package"

\* the url of protocol + "/" + host + joined, for the package url pkg of the base
PackageUrlWith(pkg, joined) == URL(pkg.protocol \o <<sep>> \o pkg.host \o joined, NoBase)

\* what is left of a pathname that begins with "//" after these two slashes
\* and the segment that follows them
AfterAuthority(pathname) ==
    SubSeq(pathname, FindEnd(pathname, 3, {sep}), Len(pathname))

\* C11 as stated, on the package url pkg of the base: the path is resolved
\* against the whole pathname of the base
OriginalPackageJoin(pkg) ==
    ret = PackageUrlWith(pkg, JoinedPathname(pkg.pathname, pathToUnixPath(path)))

AmendedPackageJoin(pkg) ==
    IF ~ startsWith(pkg.pathname, <<sep, sep>>)
    THEN ret = PackageUrlWith(pkg, JoinedPathname(pkg.pathname, pathToUnixPath(path)))
    ELSE \/ ret.kind = "error"
         \/ ret = PackageUrlWith(pkg, JoinedPathname(AfterAuthority(pkg.pathname),
                                                     pathToUnixPath(path)))

DirectUrl(p) ==
    CASE getUriScheme(p) = "local" -> URL(FILE_PROTOCOL \o p, NoBase)
      [] getUriScheme(p) \in {"npm", "jsr"} ->
            IF parsePackageUrl(p).kind = "error" THEN parsePackageUrl(p)
            ELSE URL(parsePackageUrl(p).href, NoBase)
      [] OTHER -> URL(p, NoBase)

\* a resolveAsUrl call on a path that is not relative, with no base or
\* with a base whose scheme is neither data nor relative
DirectOnSupportedBase ==
    /\ Returned("resolveAsUrl")
    /\ getUriScheme(pathToUnixPath(path))
           \in {"local", "npm", "jsr", "http", "https", "file", "data"}
    /\ (base = NoBase \/ getUriScheme(base) \notin {"data", "relative"})

\* C12 (as stated): a local path yields the url of "file://" + path, an npm
\* or jsr path the url of parsePackageUrl(path).href, an http, https, file or
\* data path the url of the path itself, whatever the supported base is.
C12_Original ==
    DirectOnSupportedBase => ret = DirectUrl(pathToUnixPath(path))

\* C12 (amended): the same, provided that resolveAsUrl(base) does not throw;
\* when it throws, resolveAsUrl(path, base) throws that same error, also for
\* a path that has no use for the base.
C12_DispatchIgnoresBase ==
    DirectOnSupportedBase =>
        IF base # NoBase /\ resolveAsUrl(base, NoBase).kind = "error"
        THEN ret = resolveAsUrl(base, NoBase)
        ELSE ret = DirectUrl(pathToUnixPath(path))

\* the local path "a\" has been resolved with the base of the doc-test,
\* "http://cdn.google.com/path/": the url is file://a/
C12_Witness ==
    /\ Returned("resolveAsUrl")
    /\ path = <<"a", "\\">>
    /\ base = DocBaseHttp
    /\ ret.kind = "url"
    /\ Href(ret) = <<"f", "i", "l", "e", ":", "/", "/", "a", "/">>

\* the prefixes of the first path of ps that are a prefix of every path of
\* ps and are either empty or end with "/"
CommonDirs(ps) ==
    {d \in {SubSeq(ps[1], 1, k) : k \in 0..Len(ps[1])} :
        /\ \A i \in 1..Len(ps) : startsWith(ps[i], d)
        /\ (d = <<>> \/ d[Len(d)] = sep)}

\* d is the longest of the common directories of ps
LongestCommonDir(ps, d) ==
    /\ d \in CommonDirs(ps)
    /\ \A e \in CommonDirs(ps) : Len(e) <= Len(d)

\* C13: for a non-empty list of normalized unix paths,
\* commonNormalizedUnixPath returns the longest string that is a prefix of
\* every path and is empty or ends with "/" (so it cuts no segment in the
\* middle, counts no last segment without "/" as a directory, and is "" when
\* there is no such non-empty prefix); commonPath returns the same over the
\* normalizePath images of its paths.
C13_LongestCommonDirectory ==
    /\ Returned("commonNormalizedUnixPath") =>
           ret.kind = "string" /\ LongestCommonDir(paths, ret.val)
    /\ Returned("commonPath") =>
           ret.kind = "string" /\ LongestCommonDir(NormalPaths(paths), ret.val)

\* commonNormalizedUnixPath(["c/h/w/u", "c/h/w/", "c/h/w"]) has returned
\* "c/h/": the common prefix "c/h/w" was cut back to its last "/"
C13_Witness ==
    /\ Returned("commonNormalizedUnixPath")
    /\ Len(paths) = 3
    /\ paths[3] = <<"c", "/", "h", "/", "w">>
    /\ commonPrefix(paths) = <<"c", "/", "h", "/", "w">>
    /\ ret.val = <<"c", "/", "h", "/">>

\* the path holds two slashes (of either kind) in a row
HasConsecutiveSlashes(p) ==
    \E i \in 1..(Len(p) - 1) : p[i] \in {sep, "\\"} /\ p[i + 1] \in {sep, "\\"}

\* C14: for a list of paths none of which holds two or more consecutive
\* slashes, every subpath that commonPathTransform hands to map_fn begins
\* with neither "/" nor "./".
C14_SubpathNotSlashed ==
    (\A i \in 1..Len(paths) : ~ HasConsecutiveSlashes(paths[i])) =>
        \A k \in 1..Len(calls) :
            /\ ~ startsWith(calls[k][1][2], <<sep>>)
            /\ ~ startsWith(calls[k][1][2], <<".", sep>>)

\* C15: commonPathTransform calls map_fn exactly once per input path, in
\* input order, with a pair [common_dir, subpath] whose common_dir is the
\* same for all paths and whose common_dir + subpath is normalizePath of that
\* input; the list it returns has the length of the input.
C15_MapFnOncePerPath ==
    fn = "commonPathTransform" =>
        /\ Len(calls) <= Len(paths)
        /\ \A k \in 1..Len(calls) :
            /\ calls[k][2] = k - 1
            /\ calls[k][1][1] = calls[1][1][1]
            /\ calls[k][1][1] \o calls[k][1][2] = normalizePath(paths[k])
        /\ pc = "done" =>
            /\ Len(calls) = Len(paths)
            /\ ret.kind = "list"
            /\ Len(ret.val) = Len(paths)

\* commonPathTransform(["b/", "b/aa"], map_fn) has returned, map_fn giving
\* [index, subpath]: it was called with ["b/", ""] and then with ["b/", "aa"]
C15_Witness ==
    /\ Returned("commonPathTransform")
    /\ map_fn = "indexed"
    /\ paths = <<<<"b", "/">>, <<"b", "/", "a", "a">>>>
    /\ calls = <<<<<<<<"b", "/">>, <<>>>>, 0>>, <<<<<<"b", "/">>, <<"a", "a">>>>, 1>>>>
    /\ ret.val = <<<<0, <<>>>>, <<1, <<"a", "a">>>>>>

\* the subpath of the k-th path of ps: what normalizePath gives for it, after
\* the common directory of the paths
SubpathOf(ps, k) ==
    SubSeq(normalizePath(ps[k]), Len(commonPath(ps)) + 1, Len(normalizePath(ps[k])))

\* C16: commonPathReplace returns, for each input path in order,
\* new_common_dir (with one "/" appended only when it does not already end
\* with "/") followed by that path's subpath after the common directory;
\* new_common_dir is taken as given, neither normalized nor converted from
\* backslashes.
C16_ReplaceCommonDir ==
    Returned("commonPathReplace") =>
        /\ ret.kind = "list"
        /\ Len(ret.val) = Len(paths)
        /\ \A k \in 1..Len(paths) :
            ret.val[k] =
                (IF base # <<>> /\ base[Len(base)] = sep THEN base ELSE Append(base, sep))
                    \o SubpathOf(paths, k)

\* commonPathReplace(["b/", "b/aa"], "b\") has returned ["b\/", "b\/aa"]
C16_Witness ==
    /\ Returned("commonPathReplace")
    /\ paths = <<<<"b", "/">>, <<"b", "/", "a", "a">>>>
    /\ base = <<"b", "\\">>
    /\ ret.val = <<<<"b", "\\", "/">>, <<"b", "\\", "/", "a", "a">>>>

\* joinSlash(a, b) has returned
JoinedTwo == Returned("joinSlash") /\ Len(paths) = 2

\* the string is cut off from slashes on both sides: it neither begins with
\* "/" or "./" nor ends with "/"
IsTrimmed(str) ==
    /\ ~ startsWith(str, <<sep>>)
    /\ ~ startsWith(str, <<".", sep>>)
    /\ ~ endsWith(str, <<sep>>)

\* C17 (as stated): for all segments a and b, joinSlash(a, b) is the trimmed
\* a, exactly one "/", and the trimmed b.
C17_Original ==
    JoinedTwo =>
        /\ IsTrimmed(trimDotSlashes(paths[1]))
        /\ IsTrimmed(trimDotSlashes(paths[2]))
        /\ ret.val = trimDotSlashes(paths[1]) \o <<sep>> \o trimDotSlashes(paths[2])

\* C17 (amended): joinSlash(a, b) is the trimmed a, exactly one "/", and the
\* trimmed b when the trimmed a is not empty; when it is empty, the result is
\* the trimmed b alone, with no "/" before it. Either way there is no double
\* slash at the join.
C17_OneSlashAtJoin ==
    JoinedTwo =>
        /\ IsTrimmed(trimDotSlashes(paths[1]))
        /\ IsTrimmed(trimDotSlashes(paths[2]))
        /\ ret.val =
              IF trimDotSlashes(paths[1]) = <<>> THEN trimDotSlashes(paths[2])
              ELSE trimDotSlashes(paths[1]) \o <<sep>> \o trimDotSlashes(paths[2])

\* joinSlash("a/", "/b") has returned "a/b"
C17_Witness ==
    /\ JoinedTwo
    /\ paths = <<<<"a", "/">>, <<"/", "b">>>>
    /\ ret.val = <<"a", "/", "b">>

\* C18: for every input of parseFilepathInfo, dirpath ends with "/" when the
\* filename is not empty, and otherwise dirpath is the whole normalized path.
C18_DirpathEndsWithSlash ==
    Returned("parseFilepathInfo") =>
        IF ret.filename # <<>> THEN endsWith(ret.dirpath, <<sep>>)
        ELSE ret.dirpath = normalizePath(path)

\* C19: parseFilepathInfo splits the normalized path exactly: filename holds
\* no "/", and dirpath followed by filename is path, for every input.
C19_ExactSplit ==
    Returned("parseFilepathInfo") =>
        /\ ret.path = normalizePath(path)
        /\ \A i \in 1..Len(ret.filename) : ret.filename[i] # sep
        /\ ret.dirpath \o ret.filename = ret.path

\* parseFilepathInfo("a\b.c") has returned: path "a/b.c" is split into the
\* dirpath "a/" and the filename "b.c"
C19_Witness ==
    /\ Returned("parseFilepathInfo")
    /\ path = <<"a", "\\", "b", ".", "c">>
    /\ ret.path = <<"a", "/", "b", ".", "c">>
    /\ ret.dirpath = <<"a", "/">>
    /\ ret.filename = <<"b", ".", "c">>

\* the filename has no extension: it has no dot, or its only dot is its
\* first character, or it ends with a dot
HasNoExtension(filename) ==
    \/ \A i \in 2..Len(filename) : filename[i] # "."
    \/ filename # <<>> /\ filename[Len(filename)] = "."

\* C20: in every FilepathInfo, basename followed by extname is filename; a
\* filename without extension has the extname "" and itself as basename.
C20_BasenameExtnameSplit ==
    Returned("parseFilepathInfo") =>
        /\ ret.basename \o ret.extname = ret.filename
        /\ HasNoExtension(ret.filename) =>
               ret.extname = <<>> /\ ret.basename = ret.filename

\* the error parsePackageUrl throws
PackageError == ErrorValue("invalid package url format")

\* str, converted to unix separators, has the scheme npm or jsr and
\* parsePackageUrl rejects it
RejectedPackage(str) ==
    /\ getUriScheme(pathToUnixPath(str)) \in {"npm", "jsr"}
    /\ parsePackageUrl(pathToUnixPath(str)) = PackageError

\* C22 (as stated): when path has the scheme npm or jsr, or base is an npm:
\* or jsr: string, and parsePackageUrl rejects it, resolveAsUrl raises that
\* error and returns no url.
C22_Original ==
    /\ Returned("resolveAsUrl")
    /\ (RejectedPackage(path) \/ (base # NoBase /\ RejectedPackage(base)))
    => ret = PackageError

\* C22 (amended): in these cases resolveAsUrl raises an error and returns no
\* url. The error is the one of parsePackageUrl, unless the base string is
\* turned down before the path is looked at: a base of scheme data or
\* relative raises the unsupported-scheme error, and a base that
\* resolveAsUrl(base) cannot resolve raises the error of that call.
C22_PackageErrorRaised ==
    /\ Returned("resolveAsUrl")
    /\ (RejectedPackage(path) \/ (base # NoBase /\ RejectedPackage(base)))
    => /\ ret.kind = "error"
       /\ ret = IF base = NoBase THEN PackageError
                ELSE IF getUriScheme(base) \in {"data", "relative"}
                THEN ErrorValue("the following base scheme (url-protocol) is not supported")
                ELSE IF resolveAsUrl(base, NoBase).kind = "error"
                THEN resolveAsUrl(base, NoBase)
                ELSE PackageError

\* "npm:" has been resolved with the base "http://cdn.google.com/path/" of
\* the doc-test: the error of parsePackageUrl was raised
C22_Witness ==
    /\ Returned("resolveAsUrl")
    /\ path = NPM
    /\ base = DocBaseHttp
    /\ ret = PackageError

\* the specifier str with k more slashes right after its protocol
WithSlashesInserted(str, k) ==
    SubSeq(str, 1, Len(NPM)) \o Slashes(k) \o SubSeq(str, Len(NPM) + 1, Len(str))

\* C23: for every specifier that parsePackageUrl accepts, the specifier with
\* k >= 0 more slashes right after "npm:" or "jsr:" is parsed to the same
\* protocol, scope, pkg, version, pathname, host and href.
C23_LeadingSlashesIgnored ==
    Returned("parsePackageUrl") /\ ret.kind = "package" =>
        \A k \in 0..MaxPkgSlashes :
            parsePackageUrl(WithSlashesInserted(path, k)) = ret

\* "npm://@s/p@1/x" has been parsed, to what "npm:@s/p@1/x" is parsed to
C23_Witness ==
    /\ Returned("parsePackageUrl")
    /\ path = NPM \o <<"/", "/", "@", "s", "/", "p", "@", "1", "/", "x">>
    /\ ret.kind = "package"
    /\ ret.host = <<"@", "s", "/", "p", "@", "1">>
    /\ ret.href = NPM \o <<"/", "@", "s", "/", "p", "@", "1", "/", "x">>
    /\ parsePackageUrl(NPM \o <<"@", "s", "/", "p", "@", "1", "/", "x">>) = ret

\* C24: the output of normalizeUnixPath has no "." segment, and each of its
\* ".." segments precedes all its segments that are not "..": it is zero or
\* more ".." segments followed by ordinary or empty segments. The stack of
\* the loop has this shape all along.
C24_DotDotsLead ==
    /\ fn = "normalizeUnixPath" /\ pc = "loop" => IsUpwardThenPlain(output_segments)
    /\ Returned("normalizeUnixPath") => IsUpwardThenPlain(split(ret.val))

\* normalizeUnixPath("../helloworld/./temp/../././/hello.txt") has returned:
\* the input had "." and ".." segments after its first, the output has one
\* ".." segment, its first
C24_Witness ==
    /\ Returned("normalizeUnixPath")
    /\ path = DocPath1
    /\ ~ IsUpwardThenPlain(split(path))
    /\ LeadingDotDots(split(ret.val)) = 1
    /\ ~ HasDotSegment(Tail(split(ret.val)))

\* a resolveAsUrl call on a relative path has returned a url, with a base
\* that resolves to a url of protocol npm: or jsr:
ReturnedWithinPackage ==
    /\ RelativeOnPackageBase
    /\ ret.kind = "url"

\* the two package records name the same package: protocol, scope, package
\* name, version and host are the same
SamePackage(pkg, other) ==
    /\ pkg.kind = "package" /\ other.kind = "package"
    /\ pkg.protocol = other.protocol
    /\ pkg.scope = other.scope
    /\ pkg.pkg = other.pkg
    /\ pkg.version = other.version
    /\ pkg.host = other.host

UnsupportedBaseError ==
    ErrorValue("the following base scheme (url-protocol) is not supported")

\* C26: the base check of resolveAsUrl precedes the dispatch on the scheme of
\* the path: a base string of scheme data or relative makes resolveAsUrl
\* raise the unsupported-scheme error for every path, also for the local,
\* http, https, file, data, npm and jsr paths that resolve without a base.
C26_BaseCheckedFirst ==
    Returned("resolveAsUrl") /\ base # NoBase /\ getUriScheme(base) \in {"data", "relative"}
        => ret = UnsupportedBaseError

\* "http://a", which resolves without a base, has been resolved with the
\* relative base "./path/" of the doc-test: the call has thrown
C26_Witness ==
    /\ Returned("resolveAsUrl")
    /\ path = <<"h", "t", "t", "p", ":", "/", "/", "a">>
    /\ base = DocBaseRel
    /\ resolveAsUrl(path, NoBase).kind = "url"
    /\ ret = UnsupportedBaseError

\* C27: a normalized path that ends with "/", or is empty, is parsed as a
\* directory: parseFilepathInfo returns the filename, basename and extname
\* "" and a dirpath that is the whole normalized path.
C27_DirectoryHasNoFilename ==
    /\ Returned("parseFilepathInfo")
    /\ (normalizePath(path) = <<>> \/ endsWith(normalizePath(path), <<sep>>))
    => /\ ret.filename = <<>>
       /\ ret.basename = <<>>
       /\ ret.extname = <<>>
       /\ ret.dirpath = normalizePath(path)

\* parseFilepathInfo("a/.a/") has returned: the path is a directory, of the
\* name ".a"
C27_Witness ==
    /\ Returned("parseFilepathInfo")
    /\ path = <<"a", "/", ".", "a", "/">>
    /\ ret.path = <<"a", "/", ".", "a", "/">>
    /\ ret.dirpath = ret.path
    /\ ret.dirname = <<".", "a">>
    /\ ret.filename = <<>>

\* C30: resolveAsUrl always terminates. Its only recursive call resolves the
\* base string, with no base of its own, so at most two calls of resolveAsUrl
\* are ever active, and a call that was made does return or throw.
C30_ResolveTerminates ==
    /\ [](/\ Len(stack) <= 2
          /\ Len(stack) = 2 => stack[2].path = stack[1].base /\ stack[2].base = NoBase)
    /\ (pc = "resolve" ~> pc = "done")

\* resolveAsUrl("./to/file.txt", "npm:react") is resolving its base: two
\* calls of resolveAsUrl are active
C30_Witness ==
    /\ fn = "resolveAsUrl"
    /\ pc = "resolve"
    /\ path = DocRel1
    /\ base = DocBaseNpm
    /\ Len(stack) = 2
    /\ stack[2] = ResolveFrame(DocBaseNpm, NoBase)

\* the bytes of u8 with each group of bs bytes reversed
GroupsReversed(u8, bs) ==
    [k \in 1..Len(u8) |-> u8[((k - 1) \div bs) * bs + bs - ((k - 1) % bs)]]

\* C28: for a byte buffer whose length is a multiple of bytesize,
\* swapEndianessFast returns a new buffer with each group of bytesize bytes
\* reversed, which is what swapEndianess makes of the buffer, and leaves the
\* buffer as it was; swapEndianess reverses the groups in the buffer itself
\* and returns it; either one applied twice gives the bytes back.
C28_SwapEquivalence ==
    /\ pc = "done" /\ fn \in {"swapEndianess", "swapEndianessFast"}
    /\ Len(bytes_at_call) % bytesize = 0
    => /\ ret.val = GroupsReversed(bytes_at_call, bytesize)
       /\ ret.val = swapEndianess(bytes_at_call, bytesize)
       /\ ret.val = swapEndianessFast(bytes_at_call, bytesize)
       /\ fn = "swapEndianessFast" => ~ ret.same_as_buf /\ bytes = bytes_at_call
       /\ fn = "swapEndianess" => ret.same_as_buf /\ bytes = ret.val
       /\ swapEndianess(ret.val, bytesize) = bytes_at_call
       /\ swapEndianessFast(ret.val, bytesize) = bytes_at_call

\* swapEndianess of the four bytes 0 1 2 1 by groups of two has made them
\* 1 0 1 2 in place
C28_Witness ==
    /\ Returned("swapEndianess")
    /\ bytes_at_call = <<0, 1, 2, 1>>
    /\ bytesize = 2
    /\ bytes = <<1, 0, 1, 2>>

\* the number of chunks C29 states: ceil((end - start) / step), none when
\* start >= end
ChunkCount(first, last, step) ==
    IF first >= last THEN 0 ELSE (last - first + step - 1) \div step

\* C29: when slice_length + skip_length >= 1, sliceSkip and
\* sliceSkipTypedSubarray end for every array, start and end; the offset of
\* the loop grows with every iteration; and the call returns
\* ceil((end - start) / (slice_length + skip_length)) chunks, none when
\* start >= end (start and end as resolveRange resolved them).
C29_SliceSkipTerminates ==
    /\ (pc = "slice" /\ slice_length + skip_length >= 1) ~> (pc = "done")
    /\ [][pc = "slice" /\ pc' = "slice" /\ slice_length + skip_length >= 1
            => offset' > offset]_vars
    /\ [](/\ pc = "done" /\ fn \in {"sliceSkip", "sliceSkipTypedSubarray"}
          /\ slice_length + skip_length >= 1
          => Len(ret.val) = ChunkCount(start, end, slice_length + skip_length))

\* sliceSkip of a three element array, slice_length 1 and skip_length 1,
\* has returned the two chunks [0] and [2]
C29_Witness ==
    /\ Returned("sliceSkip")
    /\ bytes = <<0, 1, 2>>
    /\ slice_length = 1 /\ skip_length = 1
    /\ start = 0 /\ end = 3
    /\ ret = ChunksValue(<<[val |-> <<0>>, view |-> FALSE], [val |-> <<2>>, view |-> FALSE]>>)

\* what commonPathTransform(ps, f) and commonPathReplace(ps, dir) return when
\* nothing but their arguments is looked at
TransformedPaths(ps, f, dir) ==
    [k \in 1..Len(ps) |-> ApplyMapFn(f, PathInfos(ps)[k], k - 1, dir)]

\* C21: the path functions are stateless. At every point of every sequence
\* of calls the scheme table and the lastIndex of every regex constant are
\* what they were when the module was loaded, and what getUriScheme,
\* parsePackageUrl, normalizePath, resolveAsUrl and the commonPath functions
\* return or throw is a function of their arguments alone.
C21_Stateless ==
    /\ scheme_mapping = uri_protocol_and_scheme_mapping
    /\ \A regex \in Regexes : lastIndex[regex] = 0
    /\ Returned("getUriScheme") => ret = SchemeValue(getUriScheme(path))
    /\ Returned("parsePackageUrl") => ret = parsePackageUrl(path)
    /\ Returned("normalizePath") => ret = StringValue(normalizePath(path))
    /\ Returned("resolveAsUrl") => ret = resolveAsUrl(path, base)
    /\ Returned("commonNormalizedUnixPath") => ret = StringValue(commonNormalizedUnixPath(paths))
    /\ Returned("commonPath") => ret = StringValue(commonPath(paths))
    /\ Returned("commonPathTransform")
        => ret = ListValue(TransformedPaths(paths, map_fn, new_common_dir))
    /\ Returned("commonPathReplace")
        => ret = ListValue(TransformedPaths(paths, "replace", ensureEndSlash(base)))

\* normalizePath("a\a") has returned "a/a": the global regex of pathToUnixPath
\* found a match, and its lastIndex is 0 again
C21_Witness ==
    /\ Returned("normalizePath")
    /\ path = <<"a", "\\", "a">>
    /\ ret = StringValue(<<"a", "/", "a">>)
    /\ lastIndex["windows_directory_slash_regex"] = 0

=============================================================================
